---- MODULE Spec2Model ----
(***************************************************************************)
(* Duplicate detection and merging of contact records                      *)
(* (anschmieg/contacts-cleaner).                                           *)
(*                                                                         *)
(* Two generations of the engine live side by side in the repository:      *)
(*   - the dict based functions of process_contact.py / process_name.py /  *)
(*     process_phone.py (contacts are Python dicts), and                   *)
(*   - the class based engine of src/core (Contact objects, ContactMatcher,*)
(*     ContactMerger) driven by main.py.                                   *)
(* Both are modelled.  A Python str is a sequence of one-character         *)
(* strings, a Python list a sequence, id(obj) a natural number, and the    *)
(* objects live in the function `heap` from ids to records.                *)
(***************************************************************************)
EXTENDS Integers, Sequences, FiniteSets, TLC

(***************************************************************************)
(* Bounds of the model                                                     *)
(***************************************************************************)
\* largest number of contacts in one batch
MaxContacts == 3

(***************************************************************************)
(* Python str primitives                                                   *)
(***************************************************************************)
LowerLetters ==
  {"a","b","c","d","e","f","g","h","i","j","k","l","m",
   "n","o","p","q","r","s","t","u","v","w","x","y","z"}

UpperLetters ==
  {"A","B","C","D","E","F","G","H","I","J","K","L","M",
   "N","O","P","Q","R","S","T","U","V","W","X","Y","Z"}

Digits == {"0","1","2","3","4","5","6","7","8","9"}

\* the pairs <<upper, lower>> of str.lower()
CasePairs ==
  { <<"A","a">>, <<"B","b">>, <<"C","c">>, <<"D","d">>, <<"E","e">>,
    <<"F","f">>, <<"G","g">>, <<"H","h">>, <<"I","i">>, <<"J","j">>,
    <<"K","k">>, <<"L","l">>, <<"M","m">>, <<"N","n">>, <<"O","o">>,
    <<"P","p">>, <<"Q","q">>, <<"R","r">>, <<"S","s">>, <<"T","t">>,
    <<"U","u">>, <<"V","v">>, <<"W","w">>, <<"X","x">>, <<"Y","y">>,
    <<"Z","z">> }

LowerChar(c) ==
  IF c \in UpperLetters THEN (CHOOSE p \in CasePairs : p[1] = c)[2] ELSE c

UpperChar(c) ==
  IF c \in LowerLetters THEN (CHOOSE p \in CasePairs : p[2] = c)[1] ELSE c

\* the element of a one-element set: Only({ e(v) : v \in {x} }) is e(x) with
\* x computed once
Only(S) == CHOOSE r \in S : TRUE

\* str.lower()
Lower(s) == [k \in 1..Len(s) |-> LowerChar(s[k])]

\* regex \s and str.split() whitespace
IsSpace(c) == c \in {" ", "\t", "\n"}

\* regex \w
IsWordChar(c) == c \in LowerLetters \cup UpperLetters \cup Digits \cup {"_"}

RECURSIVE SplitWs(_, _, _)
SplitWs(s, cur, acc) ==
  IF s = <<>>
    THEN (IF cur = <<>> THEN acc ELSE Append(acc, cur))
    ELSE IF IsSpace(Head(s))
      THEN SplitWs(Tail(s), <<>>, IF cur = <<>> THEN acc ELSE Append(acc, cur))
      ELSE SplitWs(Tail(s), Append(cur, Head(s)), acc)

\* str.split() without argument: the maximal runs of non-whitespace
Split(s) == SplitWs(s, <<>>, <<>>)

RECURSIVE LStrip(_)
LStrip(s) == IF s # <<>> /\ IsSpace(Head(s)) THEN LStrip(Tail(s)) ELSE s

RECURSIVE RStrip(_)
RStrip(s) ==
  IF s # <<>> /\ IsSpace(s[Len(s)]) THEN RStrip(SubSeq(s, 1, Len(s) - 1)) ELSE s

\* str.strip()
Strip(s) == LStrip(RStrip(s))

RECURSIVE JoinWith(_, _)
JoinWith(sep, parts) ==
  IF parts = <<>> THEN <<>>
  ELSE IF Len(parts) = 1 THEN parts[1]
  ELSE parts[1] \o sep \o JoinWith(sep, Tail(parts))

\* the elements of a sequence
Range(f) == { f[k] : k \in DOMAIN f }

(***************************************************************************)
(* difflib.SequenceMatcher(None, a, b).ratio()                             *)
(* Indices are 0-based and half open as in Python: a[i] is a[i+1] here.    *)
(* The inputs are far shorter than 200 characters, so the autojunk         *)
(* heuristic never applies.                                                *)
(***************************************************************************)
RECURSIVE CommonLen(_, _, _, _, _, _)
\* length of the longest common run of a[i:ahi] and b[j:bhi] starting at i, j
CommonLen(a, b, i, j, ahi, bhi) ==
  IF i < ahi /\ j < bhi /\ a[i + 1] = b[j + 1]
    THEN 1 + CommonLen(a, b, i + 1, j + 1, ahi, bhi)
    ELSE 0

\* <<i, j, k>>: the longest matching block in a[alo:ahi], b[blo:bhi]; among
\* the longest ones the block starting earliest in a, then earliest in b
find_longest_match(a, b, alo, ahi, blo, bhi) ==
  LET starts == (alo..(ahi - 1)) \X (blo..(bhi - 1))
      sized  == { <<p[1], p[2], CommonLen(a, b, p[1], p[2], ahi, bhi)>> :
                    p \in starts }
      blocks == { m \in sized : m[3] > 0 }
  IN IF blocks = {} THEN <<alo, blo, 0>>
     ELSE CHOOSE m \in blocks :
            \A o \in blocks :
               \/ m[3] > o[3]
               \/ m[3] = o[3] /\ m[1] < o[1]
               \/ m[3] = o[3] /\ m[1] = o[1] /\ m[2] <= o[2]

RECURSIVE MatchedChars(_, _, _, _, _, _)
\* sum of the sizes of get_matching_blocks()
MatchedChars(a, b, alo, ahi, blo, bhi) ==
  LET m == find_longest_match(a, b, alo, ahi, blo, bhi)
  IN IF m[3] = 0 THEN 0
     ELSE m[3]
          + (IF alo < m[1] /\ blo < m[2]
               THEN MatchedChars(a, b, alo, m[1], blo, m[2]) ELSE 0)
          + (IF m[1] + m[3] < ahi /\ m[2] + m[3] < bhi
               THEN MatchedChars(a, b, m[1] + m[3], ahi, m[2] + m[3], bhi)
               ELSE 0)

\* a ratio is the pair <<numerator, denominator>> of a rational number
SequenceMatcherRatio(a, b) ==
  IF Len(a) + Len(b) = 0 THEN <<1, 1>>
  ELSE <<2 * MatchedChars(a, b, 0, Len(a), 0, Len(b)), Len(a) + Len(b)>>

\* r > n/d for a ratio r
RatioGt(r, n, d) == r[1] * d > n * r[2]

\* process_contact.string_similarity
string_similarity(s1, s2) ==
  IF s1 = <<>> \/ s2 = <<>> THEN <<0, 1>>
  ELSE SequenceMatcherRatio(Lower(s1), Lower(s2))

(***************************************************************************)
(* re.sub(rf"\b{title}\b\.?\s*", "", name)                                 *)
(***************************************************************************)
\* does the pattern match at position k (1-based) of s
TitleMatchAt(s, t, k) ==
  /\ k + Len(t) - 1 <= Len(s)
  /\ SubSeq(s, k, k + Len(t) - 1) = t
  /\ (k = 1 \/ ~IsWordChar(s[k - 1]))
  /\ (k + Len(t) > Len(s) \/ ~IsWordChar(s[k + Len(t)]))

RECURSIVE SkipSpaces(_, _)
SkipSpaces(s, k) ==
  IF k <= Len(s) /\ IsSpace(s[k]) THEN SkipSpaces(s, k + 1) ELSE k

\* first position after the match that starts at k
TitleMatchEnd(s, t, k) ==
  LET e == k + Len(t)
      d == IF e <= Len(s) /\ s[e] = "." THEN e + 1 ELSE e
  IN SkipSpaces(s, d)

RECURSIVE SubTitleFrom(_, _, _)
SubTitleFrom(s, t, k) ==
  IF k > Len(s) THEN <<>>
  ELSE IF TitleMatchAt(s, t, k) THEN SubTitleFrom(s, t, TitleMatchEnd(s, t, k))
  ELSE <<s[k]>> \o SubTitleFrom(s, t, k + 1)

SubTitle(s, t) == SubTitleFrom(s, t, 1)

\* the titles and honorifics of is_duplicate
titles ==
  << <<"p","r","o","f">>, <<"d","r">>,
     <<"p","r","o","f","e","s","s","o","r">>,
     <<"m","r">>, <<"m","r","s">>, <<"m","s">>,
     <<"p","h","d">>, <<"m","d">>,
     <<"i">>, <<"i","i">>, <<"i","i","i">>, <<"i","v">>, <<"v">> >>

RECURSIVE RemoveTitlesFrom(_, _)
RemoveTitlesFrom(s, k) ==
  IF k > Len(titles) THEN s ELSE RemoveTitlesFrom(SubTitle(s, titles[k]), k + 1)

\* for title in titles: name = re.sub(..., "", name)
RemoveTitles(s) == RemoveTitlesFrom(s, 1)

\* [p for p in name.split() if len(p) > 2]
NameParts(name) ==
  LET Long(p) == Len(p) > 2 IN SelectSeq(Split(name), Long)

(***************************************************************************)
(* Phone numbers (process_phone.py).  The phonenumbers library is an       *)
(* external collaborator: parse() extracts the candidate number, rejects   *)
(* what is not viable or carries no "+" (no default region is passed), and *)
(* is_valid_number() consults the library's numbering plans, which are     *)
(* represented by the set ValidNumbers of the valid E.164 numbers.         *)
(***************************************************************************)
\* Python None where a str is expected
None == <<"<None>">>

ValidNumbers ==
  { <<"+","4","9","3","0","1","2","3","4","5","6">>,
    <<"+","4","9","3","0","6","5","4","3","2","1">>,
    <<"+","1","4","1","5","5","5","5","0","1","2","3">>,
    <<"+","1","4","7","9","2","1","2","3","4","5","6">>,
    <<"+","4","7","9","2","1","2","3","4","5","6">>,
    <<"+","1","8","0","0","5","5","5","5","5","5","5">>,
    <<"+","1","8","0","0","5","5","5","5","5","5","6">>,
    <<"+","4","4","8","0","0","5","5","5","5","5","5","5">> }

PhonePunctuation == {"-", " ", ".", "(", ")", "[", "]", "/", "~", "x"}

RECURSIVE DropToPhoneStart(_)
DropToPhoneStart(s) ==
  IF s = <<>> \/ Head(s) \in Digits \cup {"+"} THEN s
  ELSE DropToPhoneStart(Tail(s))

RECURSIVE DropUnwantedEnd(_)
DropUnwantedEnd(s) ==
  IF s = <<>> \/ s[Len(s)] \in Digits \cup LowerLetters \cup UpperLetters \cup {"#"}
    THEN s
    ELSE DropUnwantedEnd(SubSeq(s, 1, Len(s) - 1))

\* phonenumbers.parse(phone, None) followed by is_valid_number and
\* format_number(..., E164); None when the library raises or rejects
ParseValidE164(phone) ==
  LET cand   == DropUnwantedEnd(DropToPhoneStart(phone))
      IsDigit(c) == c \in Digits
      digits == SelectSeq(cand, IsDigit)
      viable == /\ Len(digits) >= 3
                /\ \A k \in 1..Len(cand) :
                     \/ cand[k] \in Digits \cup PhonePunctuation
                     \/ k = 1 /\ cand[k] = "+"
      e164   == <<"+">> \o digits
  IN IF viable /\ cand[1] = "+" /\ e164 \in ValidNumbers THEN e164 ELSE None

\* process_phone.normalize_phone
normalize_phone(phone) ==
  IF phone = <<>> THEN phone
  ELSE LET p == IF Len(phone) >= 2 /\ phone[1] = "0" /\ phone[2] = "0"
                  THEN <<"+">> \o SubSeq(phone, 3, Len(phone))
                  ELSE phone
       IN ParseValidE164(p)

RECURSIVE normalize_phone_list(_)
\* process_phone.normalize_phone_list for a flat list of str
normalize_phone_list(phones) ==
  IF phones = <<>> THEN <<>>
  ELSE LET n == normalize_phone(Strip(Head(phones)))
       IN (IF n # <<>> /\ n # None THEN <<n>> ELSE <<>>)
            \o normalize_phone_list(Tail(phones))

(***************************************************************************)
(* Python values and dicts.  A value is tagged with its Python type; a     *)
(* dict is a function from the keys it holds to values.                    *)
(***************************************************************************)
PyStr(s)  == [t |-> "str", v |-> s]
PyList(l) == [t |-> "list", v |-> l]
PyNum(n)  == [t |-> "num", v |-> n]

EmptyStr == PyStr(<<>>)

\* dict.get(key, default)
Get(d, key, default) == IF key \in DOMAIN d THEN d[key] ELSE default

\* truth value of a str, list or number
Truthy(val) == IF val.t = "num" THEN val.v # 0 ELSE val.v # <<>>

\* the characters of a str value (the modelled callers pass str only)
Chars(val) == val.v

(***************************************************************************)
(* Exact rational arithmetic for the confidence scores: <<n, d>> is n/d.   *)
(***************************************************************************)
RECURSIVE GCD(_, _)
GCD(a, b) == IF b = 0 THEN a ELSE GCD(b, a % b)

RNorm(r) ==
  LET g == GCD(r[1], r[2]) IN IF g = 0 THEN <<0, 1>> ELSE <<r[1] \div g, r[2] \div g>>

RAdd(a, b) == RNorm(<<a[1] * b[2] + b[1] * a[2], a[2] * b[2]>>)
RMul(a, b) == RNorm(<<a[1] * b[1], a[2] * b[2]>>)
RLe(a, b)  == a[1] * b[2] <= b[1] * a[2]
RZero == <<0, 1>>
ROne  == <<1, 1>>

\* min(1.0, score)
MinOne(score) == IF RLe(ROne, score) THEN ROne ELSE score

(***************************************************************************)
(* process_name.get_contact_name and process_contact.is_duplicate          *)
(***************************************************************************)
Unknown == <<"U","n","k","n","o","w","n">>

\* contact.get("Full Name", contact.get("Name", "Unknown"))
get_contact_name(contact) ==
  Chars(Get(contact, "Full Name", Get(contact, "Name", PyStr(Unknown))))

\* sum(1 for p1 in parts1 for p2 in parts2
\*     if p1 == p2 or string_similarity(p1, p2) > 0.8)
matching_parts(parts1, parts2) ==
  Cardinality({ q \in (1..Len(parts1)) \X (1..Len(parts2)) :
     \/ parts1[q[1]] = parts2[q[2]]
     \/ RatioGt(string_similarity(parts1[q[1]], parts2[q[2]]), 8, 10) })

\* parts1 / parts2 of is_duplicate
DupParts(contact) == NameParts(RemoveTitles(Lower(get_contact_name(contact))))

\* set(normalize_phone_list(contact.get("Telephone", ""))): iterating a
\* str yields its characters one by one
PhoneSet(contact) ==
  LET tel == Get(contact, "Telephone", EmptyStr)
  IN IF tel.t = "list" THEN Range(normalize_phone_list(tel.v))
     ELSE Range(normalize_phone_list([k \in 1..Len(tel.v) |-> <<tel.v[k]>>]))

have_matching_phones(contact1, contact2) ==
  PhoneSet(contact1) \cap PhoneSet(contact2) # {}

\* the thresholds 0.33 and 0.67 of the decision, in hundredths
PhoneNameRatioPct == 33
NameOnlyRatioPct == 67

\* name_match_ratio >= pct/100, where
\* name_match_ratio = matching_parts / total_parts if total_parts > 0 else 0
NameRatioAtLeast(matching, total, pct) ==
  IF total > 0 THEN matching * 100 >= pct * total ELSE 0 >= pct

\* is_duplicate deciding with the exact fractions 1/3 and 2/3
DuplicateDecisionThirds(contact1, contact2) ==
  LET parts1   == DupParts(contact1)
      parts2   == DupParts(contact2)
      matching == matching_parts(parts1, parts2)
      total    == IF Len(parts1) >= Len(parts2) THEN Len(parts1) ELSE Len(parts2)
  IN /\ total > 0
     /\ \/ have_matching_phones(contact1, contact2) /\ 3 * matching >= total
        \/ 3 * matching >= 2 * total

\* the decision of is_duplicate when it is not served from the cache
DuplicateDecision(contact1, contact2) ==
  LET parts1   == DupParts(contact1)
      parts2   == DupParts(contact2)
      matching == matching_parts(parts1, parts2)
      total    == IF Len(parts1) >= Len(parts2) THEN Len(parts1) ELSE Len(parts2)
  IN \/ /\ have_matching_phones(contact1, contact2)
        /\ NameRatioAtLeast(matching, total, PhoneNameRatioPct)
     \/ NameRatioAtLeast(matching, total, NameOnlyRatioPct)

\* cache_key = tuple(sorted([id(contact1), id(contact2)]))
CacheKey(id1, id2) == IF id1 <= id2 THEN <<id1, id2>> ELSE <<id2, id1>>

\* is_duplicate without the cache check of lines 356-361
is_duplicate_uncached(hp, id1, id2, cache) ==
  IF DOMAIN hp[id1] = {} \/ DOMAIN hp[id2] = {} THEN FALSE
  ELSE DuplicateDecision(hp[id1], hp[id2])

\* is_duplicate(contact1, contact2, comparison_cache): the returned decision;
\* cache is a function from cache keys to decisions
is_duplicate(hp, id1, id2, cache) ==
  IF DOMAIN hp[id1] = {} \/ DOMAIN hp[id2] = {} THEN FALSE
  ELSE IF CacheKey(id1, id2) \in DOMAIN cache THEN cache[CacheKey(id1, id2)]
  ELSE DuplicateDecision(hp[id1], hp[id2])

\* the cache after is_duplicate(contact1, contact2, comparison_cache)
CacheAfter(hp, id1, id2, cache) ==
  IF DOMAIN hp[id1] = {} \/ DOMAIN hp[id2] = {} THEN cache
  ELSE IF CacheKey(id1, id2) \in DOMAIN cache THEN cache
  ELSE cache @@ (CacheKey(id1, id2) :> DuplicateDecision(hp[id1], hp[id2]))

(***************************************************************************)
(* process_contact.calculate_match_confidence                              *)
(***************************************************************************)
\* the weights, in tenths
WeightEmail == 10
WeightFullName == 10
WeightFirstLast == 9
WeightOrganization == 3
WeightStreet == 3
WeightCity == 2
WeightPostalCode == 3
WeightCountry == 1

Tenths(w) == <<w, 10>>

\* score contribution of one fuzzily compared field: weight * similarity when
\* both values are non-empty and the similarity exceeds the threshold
FuzzyTerm(v1, v2, weight, thrNum, thrDen) ==
  IF v1 # <<>> /\ v2 # <<>>
       /\ RatioGt(string_similarity(v1, v2), thrNum, thrDen)
    THEN RMul(Tenths(weight), RNorm(string_similarity(v1, v2)))
    ELSE RZero

StrOf(contact, key) == Chars(Get(contact, key, EmptyStr))

EmailTerm(contact1, contact2) ==
  IF StrOf(contact1, "Email") # <<>> /\ StrOf(contact2, "Email") # <<>>
       /\ Lower(StrOf(contact1, "Email")) = Lower(StrOf(contact2, "Email"))
    THEN Tenths(WeightEmail) ELSE RZero

FirstLastTerm(contact1, contact2) ==
  LET first1 == StrOf(contact1, "FirstName")
      first2 == StrOf(contact2, "FirstName")
      last1  == StrOf(contact1, "LastName")
      last2  == StrOf(contact2, "LastName")
      first_sim == string_similarity(first1, first2)
      last_sim  == string_similarity(last1, last2)
  IN IF first1 # <<>> /\ first2 # <<>> /\ last1 # <<>> /\ last2 # <<>>
          /\ RatioGt(first_sim, 8, 10) /\ RatioGt(last_sim, 8, 10)
       THEN RMul(Tenths(WeightFirstLast),
                 RMul(<<1, 2>>, RAdd(RNorm(first_sim), RNorm(last_sim))))
       ELSE RZero

\* the sum before the final clamp
RawScore(contact1, contact2) ==
  RAdd(EmailTerm(contact1, contact2),
  RAdd(FuzzyTerm(StrOf(contact1, "Full Name"), StrOf(contact2, "Full Name"),
                 WeightFullName, 9, 10),
  RAdd(FirstLastTerm(contact1, contact2),
  RAdd(FuzzyTerm(StrOf(contact1, "Organization"),
                 StrOf(contact2, "Organization"), WeightOrganization, 8, 10),
  RAdd(FuzzyTerm(StrOf(contact1, "ADR_Street"), StrOf(contact2, "ADR_Street"),
                 WeightStreet, 8, 10),
  RAdd(FuzzyTerm(StrOf(contact1, "ADR_Locality"),
                 StrOf(contact2, "ADR_Locality"), WeightCity, 8, 10),
  RAdd(FuzzyTerm(StrOf(contact1, "ADR_PostalCode"),
                 StrOf(contact2, "ADR_PostalCode"), WeightPostalCode, 8, 10),
       FuzzyTerm(StrOf(contact1, "ADR_Country"),
                 StrOf(contact2, "ADR_Country"), WeightCountry, 8, 10))))))))

\* calculate_match_confidence returning the sum without the final min(1.0, .)
calculate_match_confidence_unclamped(contact1, contact2) ==
  RawScore(contact1, contact2)

calculate_match_confidence(contact1, contact2) ==
  MinOne(RawScore(contact1, contact2))

(***************************************************************************)
(* More str primitives, used by the name merging                           *)
(***************************************************************************)
\* str.upper()
Upper(s) == [k \in 1..Len(s) |-> UpperChar(s[k])]

RECURSIVE SplitChar(_, _, _, _)
SplitChar(s, c, cur, acc) ==
  IF s = <<>> THEN Append(acc, cur)
  ELSE IF Head(s) = c THEN SplitChar(Tail(s), c, <<>>, Append(acc, cur))
  ELSE SplitChar(Tail(s), c, Append(cur, Head(s)), acc)

\* str.split(c) for a one-character separator: empty pieces are kept
SplitOn(s, c) == SplitChar(s, c, <<>>, <<>>)

\* c in s
HasChar(s, c) == \E k \in 1..Len(s) : s[k] = c

\* long.startswith(short)
StartsWith(long, short) ==
  Len(short) <= Len(long) /\ SubSeq(long, 1, Len(short)) = short

\* long.endswith(short)
EndsWith(long, short) ==
  Len(short) <= Len(long)
    /\ SubSeq(long, Len(long) - Len(short) + 1, Len(long)) = short

\* short in long
IsSubstring(short, long) ==
  \E k \in 0..(Len(long) - Len(short)) : SubSeq(long, k + 1, k + Len(short)) = short

RECURSIVE RStripChar(_, _)
\* s.rstrip(c)
RStripChar(s, c) ==
  IF s # <<>> /\ s[Len(s)] = c THEN RStripChar(SubSeq(s, 1, Len(s) - 1), c) ELSE s

RECURSIVE ReplaceEscapedComma(_)
\* s.replace("\\,", ",")
ReplaceEscapedComma(s) ==
  IF s = <<>> THEN <<>>
  ELSE IF Len(s) >= 2 /\ s[1] = "\\" /\ s[2] = ","
    THEN <<",">> \o ReplaceEscapedComma(SubSeq(s, 3, Len(s)))
    ELSE <<Head(s)>> \o ReplaceEscapedComma(Tail(s))

\* [f(x) for x in seq]
StripAll(seq) == [k \in 1..Len(seq) |-> Strip(seq[k])]

Space == <<" ">>
Hyphen == <<"-">>
CommaSpace == <<",", " ">>

(***************************************************************************)
(* fuzzywuzzy.fuzz.ratio (pure Python SequenceMatcher back end):           *)
(* int(round(100 * ratio)), 100 for equal and 0 for empty arguments.       *)
(***************************************************************************)
\* round() of the non-negative rational n/d: half-way cases go to the even
\* neighbour
RoundHalfEven(n, d) ==
  LET q == n \div d
      r == n % d
  IN IF 2 * r < d THEN q
     ELSE IF 2 * r > d THEN q + 1
     ELSE IF q % 2 = 0 THEN q ELSE q + 1

fuzz_ratio(s1, s2) ==
  IF s1 = s2 THEN 100
  ELSE IF s1 = <<>> \/ s2 = <<>> THEN 0
  ELSE LET r == SequenceMatcherRatio(s1, s2)
       IN RoundHalfEven(100 * r[1], r[2])

(***************************************************************************)
(* process_name.capitalize_name and process_name.merge_names               *)
(***************************************************************************)
NAME_SUFFIXES ==
  { <<"I","I">>, <<"I","I","I">>, <<"I","V">>, <<"M","D">>,
    <<"P","h","D">>, <<"J","r">>, <<"S","r">> }

NAME_PREFIXES ==
  { <<"D","r">>, <<"P","r","o","f">>, <<"M","r">>, <<"M","r","s">>, <<"M","s">> }

NAME_PARTICLES ==
  { <<"v","o","n">>, <<"v","a","n">>, <<"d","e">>, <<"l","a">>,
    <<"d","a","s">>, <<"d","o","s">>, <<"d","e","r">>, <<"d","e","n">> }

ratio_nickname_match == 80

\* cap_part for a part without hyphen
CapPlain(part) ==
  IF Upper(part) \in NAME_SUFFIXES THEN Upper(part)
  ELSE IF RStripChar(Upper(part), ".") \in NAME_PREFIXES THEN Upper(part)
  ELSE IF Lower(part) \in NAME_PARTICLES THEN Lower(part)
  ELSE IF Len(part) > 1 THEN <<UpperChar(part[1])>> \o Tail(part)
  ELSE Upper(part)

\* cap_part: hyphenated parts are capitalized piece by piece
cap_part(part) ==
  IF HasChar(part, "-")
    THEN LET pieces == SplitOn(part, "-")
         IN JoinWith(Hyphen, [k \in 1..Len(pieces) |-> CapPlain(pieces[k])])
    ELSE CapPlain(part)

capitalize_name(name) ==
  IF name = <<>> THEN name
  ELSE LET parts == Split(name)
       IN JoinWith(Space, [k \in 1..Len(parts) |-> cap_part(parts[k])])

\* 'LastName, FirstName' becomes 'FirstName LastName'
normalize_name_order(name) ==
  IF HasChar(name, ",")
    THEN LET parts == StripAll(SplitOn(name, ","))
         IN IF Len(parts) = 2 THEN parts[2] \o Space \o parts[1] ELSE name
    ELSE name

RECURSIVE NormalizeNameLoop(_, _, _)
\* the loop of normalize_name over name.split()
NormalizeNameLoop(words, current, parts) ==
  IF words = <<>>
    THEN (IF current # <<>> THEN Append(parts, JoinWith(Hyphen, current))
          ELSE parts)
    ELSE LET part == Head(words)
         IN IF EndsWith(part, Hyphen)
              THEN NormalizeNameLoop(Tail(words),
                     Append(current, SubSeq(part, 1, Len(part) - 1)), parts)
            ELSE IF StartsWith(part, Hyphen)
              THEN NormalizeNameLoop(Tail(words), <<>>,
                     Append(parts, JoinWith(Hyphen, Append(current, Tail(part)))))
            ELSE IF current # <<>>
              THEN NormalizeNameLoop(Tail(words), Append(current, part), parts)
            ELSE NormalizeNameLoop(Tail(words), current, Append(parts, part))

normalize_name(name) == NormalizeNameLoop(Split(name), <<>>, <<>>)

RECURSIVE PositionParts(_, _)
\* the list `parts` of get_position_map
PositionParts(words, parts) ==
  IF words = <<>> THEN parts
  ELSE LET part == Head(words)
       IN IF EndsWith(part, Hyphen) THEN PositionParts(Tail(words), parts)
          ELSE IF StartsWith(part, Hyphen)
            THEN PositionParts(Tail(words),
                   IF parts # <<>>
                     THEN [parts EXCEPT ![Len(parts)] = parts[Len(parts)] \o part]
                     ELSE parts)
          ELSE PositionParts(Tail(words), Append(parts, part))

\* float("inf") as a position
InfPos == 1000

\* get_position_map(name).get(key, float("inf")): the dict comprehension
\* keeps the last index of a repeated key; indices are 0-based
PositionOf(name, key) ==
  LET parts == PositionParts(Split(name), <<>>)
      hits  == { k \in 1..Len(parts) : Lower(parts[k]) = key }
  IN IF hits = {} THEN InfPos
     ELSE (CHOOSE k \in hits : \A h \in hits : h <= k) - 1

is_name_variant(short, long) ==
  LET sl == Lower(short)
      ll == Lower(long)
      blocked == { <<"d","r",".">>, <<"d","r">>, <<"m","d">>, <<"p","h","d">> }
  IN IF sl \in blocked \/ ll \in blocked THEN FALSE
     ELSE \/ IsSubstring(sl, ll)
          \/ StartsWith(ll, sl)
          \/ fuzz_ratio(sl, ll) > ratio_nickname_match

is_initial(text) ==
  LET t == RStripChar(text, ".")
  IN Len(t) = 1 /\ t[1] \in LowerLetters \cup UpperLetters

keep_initial(initial, all_parts) ==
  LET ini == Lower(RStripChar(initial, "."))
  IN ~ \E k \in 1..Len(all_parts) :
          StartsWith(Lower(all_parts[k]), ini) /\ Len(all_parts[k]) > 1

\* add_part(part) if a part already present were never replaced by its
\* longer variant
add_part_first_wins(st, part) ==
  IF Lower(part) \in st.seen THEN st
  ELSE IF is_initial(part) /\ ~keep_initial(part, st.all_parts) THEN st
  ELSE IF \E k \in 1..Len(st.all_parts) :
             \/ is_name_variant(st.all_parts[k], part)
             \/ is_name_variant(part, st.all_parts[k])
    THEN st
  ELSE [all_parts |-> Append(st.all_parts, part),
        seen |-> st.seen \cup {Lower(part)}]

\* add_part(part) on the state st = [all_parts, seen]
add_part(st, part) ==
  LET all_parts == st.all_parts
      related == { k \in 1..Len(all_parts) :
                     \/ is_name_variant(all_parts[k], part)
                     \/ is_name_variant(part, all_parts[k]) }
      idx == CHOOSE k \in related : \A h \in related : k <= h
  IN IF Lower(part) \in st.seen THEN st
     ELSE IF is_initial(part) /\ ~keep_initial(part, all_parts) THEN st
     ELSE IF related # {}
       THEN (IF /\ is_name_variant(all_parts[idx], part)
                /\ Len(part) > Len(all_parts[idx])
                /\ ~(is_initial(all_parts[idx]) /\ ~is_initial(part))
               THEN [st EXCEPT !.all_parts[idx] = part]
               ELSE st)
     ELSE [all_parts |-> Append(all_parts, part),
           seen |-> st.seen \cup {Lower(part)}]

RECURSIVE ClassifyParts(_, _)
\* the loop "for parts in [parts1, parts2]: for part in parts" over the
\* concatenation of both lists; st = [all_parts, seen, prefix_parts, suffix_parts]
ClassifyParts(parts, st) ==
  IF parts = <<>> THEN st
  ELSE LET part == Head(parts)
           part_upper == RStripChar(Upper(part), ".")
       IN IF part_upper \in NAME_PREFIXES
            THEN ClassifyParts(Tail(parts),
                   IF part \in Range(st.prefix_parts) THEN st
                   ELSE [st EXCEPT !.prefix_parts = Append(@, part)])
          ELSE IF part_upper \in NAME_SUFFIXES
            THEN ClassifyParts(Tail(parts),
                   IF part \in Range(st.suffix_parts) THEN st
                   ELSE [st EXCEPT !.suffix_parts = Append(@, part)])
          ELSE LET a == add_part([all_parts |-> st.all_parts, seen |-> st.seen], part)
               IN ClassifyParts(Tail(parts),
                    [st EXCEPT !.all_parts = a.all_parts, !.seen = a.seen])

\* the sort key of all_parts.sort: the smaller of the two positions
PartKey(x, joined1, joined2) ==
  LET p1 == PositionOf(joined1, Lower(x))
      p2 == PositionOf(joined2, Lower(x))
  IN IF p1 <= p2 THEN p1 ELSE p2

RECURSIVE InsertByKey(_, _, _, _)
\* insert x behind every element whose key is not larger (list.sort is stable)
InsertByKey(sorted, x, joined1, joined2) ==
  IF sorted = <<>> THEN <<x>>
  ELSE IF PartKey(Head(sorted), joined1, joined2) <= PartKey(x, joined1, joined2)
    THEN <<Head(sorted)>> \o InsertByKey(Tail(sorted), x, joined1, joined2)
    ELSE <<x>> \o sorted

RECURSIVE SortByKey(_, _, _)
SortByKey(parts, joined1, joined2) ==
  IF parts = <<>> THEN <<>>
  ELSE InsertByKey(SortByKey(SubSeq(parts, 1, Len(parts) - 1), joined1, joined2),
                   parts[Len(parts)], joined1, joined2)

\* the last lines of merge_names: sort all_parts by position, join the
\* prefixes, the sorted parts and the suffixes, and capitalize
MergeClassified(st, joined1, joined2) ==
  capitalize_name(
    JoinWith(Space, st.prefix_parts
                      \o SortByKey(st.all_parts, joined1, joined2)
                      \o st.suffix_parts))

\* merge_names on the normalized part lists of both names
MergeParts(parts1, parts2) ==
  Only({ MergeClassified(st, joined1, joined2) :
           st \in { ClassifyParts(parts1 \o parts2,
                      [all_parts |-> <<>>, seen |-> {},
                       prefix_parts |-> <<>>, suffix_parts |-> <<>>]) },
           joined1 \in { JoinWith(Space, parts1) },
           joined2 \in { JoinWith(Space, parts2) } })

\* process_name.merge_names(name1, name2)
merge_names(name1, name2) ==
  Only({ MergeParts(parts1, parts2) :
           parts1 \in { normalize_name(normalize_name_order(name1)) },
           parts2 \in { normalize_name(normalize_name_order(name2)) } })

(***************************************************************************)
(* process_contact.merge_contact_group (dict contacts)                     *)
(***************************************************************************)
\* the iteration orders a Python set may have: all orderings of its elements
Perms(S) ==
  { f \in [1..Cardinality(S) -> S] :
      \A a, b \in 1..Cardinality(S) : a # b => f[a] # f[b] }

\* repr() of a list of str, which is what str() gives for a list
ReprList(l) ==
  <<"[">> \o JoinWith(CommaSpace, [k \in 1..Len(l) |-> <<"'">> \o l[k] \o <<"'">>])
    \o <<"]">>

\* str(value)
StrOfValue(val) == IF val.t = "list" THEN ReprList(val.v) ELSE val.v

\* duplicate.get(key) is truthy
HasValue(d, key) == key \in DOMAIN d /\ Truthy(d[key])

\* [n.strip() for n in duplicate[key].replace("\\,", ",").split(",")]
CommaNames(d, key) ==
  IF HasValue(d, key)
    THEN Range(StripAll(SplitOn(ReplaceEscapedComma(Chars(d[key])), ",")))
    ELSE {}

\* what the "Full Name" of one duplicate adds to first_names / last_names
FullNameSplit(d) ==
  IF ~HasValue(d, "Full Name") THEN [first |-> {}, last |-> {}]
  ELSE LET full == ReplaceEscapedComma(Chars(d["Full Name"]))
       IN IF HasChar(full, ",")
            THEN LET parts == StripAll(SplitOn(full, ","))
                 IN IF Len(parts) = 2
                      THEN [first |-> {parts[2]}, last |-> {parts[1]}]
                      ELSE [first |-> {}, last |-> {}]
            ELSE LET parts == Split(full)
                 IN IF Len(parts) > 1
                      THEN [first |-> {JoinWith(Space, SubSeq(parts, 1, Len(parts) - 1))},
                            last  |-> {parts[Len(parts)]}]
                      ELSE [first |-> {}, last |-> {}]

first_names(duplicates) ==
  UNION { CommaNames(duplicates[k], "FirstName") \cup FullNameSplit(duplicates[k]).first :
            k \in 1..Len(duplicates) }

last_names(duplicates) ==
  UNION { CommaNames(duplicates[k], "LastName") \cup FullNameSplit(duplicates[k]).last :
            k \in 1..Len(duplicates) }

RECURSIVE MergeNameOrder(_, _, _)
\* first = next(iter(names)); for name in names: if name != first:
\*     first = merge_names(first, name)
MergeNameOrder(order, k, first) ==
  IF k > Len(order) THEN first
  ELSE MergeNameOrder(order, k + 1,
         IF order[k] # first THEN merge_names(first, order[k]) ELSE first)

MergeNameSet(order) == MergeNameOrder(order, 1, order[1])

NameKeys == {"Full Name", "FirstName", "LastName", "Name", "Structured Name"}

\* all_names[key]: the raw values of a name key over the group
all_names(duplicates, key) ==
  { Chars(duplicates[k][key]) :
      k \in { h \in 1..Len(duplicates) : HasValue(duplicates[h], key) } }

RECURSIVE KeyValues(_, _)
\* the values the main loop meets for one key: str(value).strip() of every
\* duplicate that holds a non-blank value
KeyValues(duplicates, key) ==
  IF duplicates = <<>> THEN <<>>
  ELSE (IF HasValue(Head(duplicates), key)
           /\ Strip(StrOfValue(Head(duplicates)[key])) # <<>>
          THEN <<Strip(StrOfValue(Head(duplicates)[key]))>> ELSE <<>>)
       \o KeyValues(Tail(duplicates), key)

RECURSIVE DedupKeepOrder(_, _)
\* keep the first occurrence of every element
DedupKeepOrder(seq, seen) ==
  IF seq = <<>> THEN <<>>
  ELSE IF Head(seq) \in seen THEN DedupKeepOrder(Tail(seq), seen)
  ELSE <<Head(seq)>> \o DedupKeepOrder(Tail(seq), seen \cup {Head(seq)})

RECURSIVE RProduct(_)
RProduct(scores) ==
  IF scores = <<>> THEN ROne ELSE RMul(Head(scores), RProduct(Tail(scores)))

\* prod(confidence_scores) ** (1 / len(confidence_scores)) if confidence_scores
\* else 0: the value is the index-th root of the radicand
GeometricMean(scores) ==
  IF scores = <<>> THEN [radicand |-> RZero, index |-> 1]
  ELSE [radicand |-> RProduct(scores), index |-> Len(scores)]

\* the confidence of every member against duplicates[0], itself included
confidence_scores(duplicates) ==
  [k \in 1..Len(duplicates) |->
     calculate_match_confidence(duplicates[1], duplicates[k])]

\* the keys merge_contact_group sets before its main loop, "Address" aside
PresetKeys(hasFirst, hasLast) ==
  (IF hasFirst THEN {"FirstName"} ELSE {})
    \cup (IF hasLast THEN {"LastName"} ELSE {})
    \cup (IF hasFirst \/ hasLast THEN {"Full Name", "Name"} ELSE {})

\* the value of a key after the main loop: vals are the values the loop
\* meets, preset is the value set before the loop (isPreset says there is one)
Looped(key, vals, isPreset, preset) ==
  IF key = "Address" THEN PyList(vals)
  ELSE IF isPreset
    THEN (IF vals = <<>> THEN PyStr(preset) ELSE PyList(<<preset>> \o vals))
  ELSE IF Len(vals) = 1 THEN PyStr(vals[1]) ELSE PyList(vals)

\* the normalized, de-duplicated "Telephone" list of the merged record
MergedPhones(val) ==
  PyList(DedupKeepOrder(
    normalize_phone_list(IF val.t = "list" THEN val.v ELSE <<val.v>>), {}))

\* the body of merge_contact_group from "Construct full name" on, for the
\* merged first and last name (first_names / last_names were non-empty iff
\* hasFirst / hasLast), the name "Full Name" and "Name" get (full) and the
\* geometric mean of the confidence scores
MergeFields(duplicates, hasFirst, hasLast, first, last, full, onames, confidence) ==
  [key \in PresetKeys(hasFirst, hasLast)
             \cup { k \in UNION { DOMAIN duplicates[h] : h \in 1..Len(duplicates) } :
                      KeyValues(duplicates, k) # <<>> }
             \cup {"Address", "Match Confidence"}
             \cup { k \in NameKeys : onames[k] # <<>> } |->
     IF key = "Match Confidence"
       THEN PyNum(confidence)
     ELSE IF key \in NameKeys /\ onames[key] # <<>>
       THEN PyStr(JoinWith(CommaSpace, onames[key]))
     ELSE Only({ IF key = "Telephone" THEN MergedPhones(val) ELSE val :
                 val \in { Looped(key, KeyValues(duplicates, key),
                                  key \in PresetKeys(hasFirst, hasLast),
                                  IF key = "FirstName" THEN first
                                  ELSE IF key = "LastName" THEN last
                                  ELSE full) } })]

\* " ".join(full_name_parts) of the non-empty merged first and last name
FullOf(first, last) ==
  JoinWith(Space, (IF first # <<>> THEN <<first>> ELSE <<>>)
                    \o (IF last # <<>> THEN <<last>> ELSE <<>>))

\* the names the loop over the set names can end with: one for every
\* iteration order of the set, "" for the empty set
MergedNames(names) ==
  IF names = {} THEN {<<>>} ELSE { MergeNameSet(order) : order \in Perms(names) }

\* merge_contact_group(duplicates) for the merged first and last name the
\* iteration orders of first_names / last_names gave and the iteration
\* orders onames[key] of all_names[key]
merge_contact_group(duplicates, first, last, onames, confidence) ==
  MergeFields(duplicates, first_names(duplicates) # {}, last_names(duplicates) # {},
              first, last, FullOf(first, last), onames, confidence)

(***************************************************************************)
(* The input values of the model: the strings that occur in the contacts.   *)
(***************************************************************************)
S_JohnSmith == <<"J","o","h","n"," ","S","m","i","t","h">>
S_JOHN_SMITH == <<"J","O","H","N"," ","S","M","I","T","H">>
S_DrJohnSmith == <<"D","r","."," ","J","o","h","n"," ","S","m","i","t","h">>
S_John == <<"J","o","h","n">>
S_Smith == <<"S","m","i","t","h">>
S_JohnAdamSmith == <<"J","o","h","n"," ","A","d","a","m"," ","S","m","i","t","h">>
S_JohnAdamBrown == <<"J","o","h","n"," ","A","d","a","m"," ","B","r","o","w","n">>
S_JohnPeterMiller == <<"J","o","h","n"," ","P","e","t","e","r"," ","M","i","l","l","e","r">>
S_JohnJohn == <<"J","o","h","n"," ","J","o","h","n">>
S_ThomasAnderson == <<"T","h","o","m","a","s"," ","A","n","d","e","r","s","o","n">>
S_ThomasAndersen == <<"T","h","o","m","a","s"," ","A","n","d","e","r","s","e","n">>
S_MatrixCorp == <<"M","a","t","r","i","x"," ","C","o","r","p">>
S_ZionLtd == <<"Z","i","o","n"," ","L","t","d">>
S_EmailJohn == <<"j","o","h","n","@","e","m","a","i","l",".","c","o","m">>
S_EmailJohnUpper == <<"J","o","h","n","@","E","m","a","i","l",".","c","o","m">>
S_EmailAda == <<"a","d","a","@","e","m","a","i","l",".","c","o","m">>
S_PhoneA == <<"+","4","9"," ","3","0"," ","1","2","3","4","5","6">>
S_PhoneA2 == <<"0","0","4","9","-","3","0","-","1","2","3","4","5","6">>
S_PhoneB == <<"+","4","9"," ","3","0"," ","6","5","4","3","2","1">>
S_PhoneBad == <<"0","3","0"," ","1","2","3","4","5","6">>
S_MainSt == <<"1"," ","M","a","i","n"," ","S","t">>
S_Berlin == <<"B","e","r","l","i","n">>

(***************************************************************************)
(* State                                                                   *)
(***************************************************************************)
VARIABLES
  heap,               \* id(obj) -> the dict or object stored there
  contacts,           \* the input list, as a sequence of ids
  pc,                 \* position of the running function
  comparison_cache,   \* cache key -> decision
  decision,           \* value returned by the last is_duplicate call
  contact_index,      \* block key -> list of ids
  processed,          \* set of ids
  merged_groups,      \* list of groups, each a list of ids
  merged_groups_map,  \* id -> index into merged_groups
  current_group,      \* the group under construction
  potential_matches,  \* candidates of the current contact
  i,                  \* index of the outer loop (1-based)
  j,                  \* index of the inner loop (1-based)
  mapping_global,     \* the module global _merged_groups_mapping
  result,             \* the list under construction / returned
  snapshot,           \* the heap as it was when the run was called
  run,                \* number of the current merge run of one ContactMerger
  cache_run,          \* cache key -> the run that wrote the entry
  hit_from,           \* run that wrote the entry the last decision came from
  addresses,          \* the list of addresses handed to the address functions
  validation_mode,    \* the AddressValidationMode in force
  api_key,            \* the key of the validation service, empty when unset
  requests,           \* the requests posted to the validation service
  outcomes,           \* per handled address, what the service call came to
  args                \* the arguments of the function under call

vars ==
  <<heap, contacts, pc, comparison_cache, decision, contact_index, processed,
    merged_groups, merged_groups_map, current_group, potential_matches, i, j,
    mapping_global, result, snapshot, run, cache_run, hit_from,
    addresses, validation_mode, api_key, requests, outcomes, args>>

\* the bookkeeping of the runs of one ContactMerger object
coreVars == <<run, cache_run, hit_from>>

\* the locals of a merge run
runVars ==
  <<contact_index, processed, merged_groups, merged_groups_map, current_group,
    potential_matches, i, j, mapping_global, result, snapshot>>

\* the function with empty domain: {} as a dict, [] as a list
Empty == <<>>

\* the locals before a run has started
RunIdle ==
  /\ contact_index = Empty
  /\ processed = {}
  /\ merged_groups = <<>>
  /\ merged_groups_map = Empty
  /\ current_group = <<>>
  /\ potential_matches = <<>>
  /\ i = 0
  /\ j = 0
  /\ mapping_global = [groups |-> <<>>, map |-> Empty]
  /\ result = <<>>
  /\ snapshot = Empty

\* no run of a ContactMerger object has started
CoreIdle ==
  /\ run = 0
  /\ cache_run = Empty
  /\ hit_from = 0

\* the state of the address functions and of the validation service
serviceVars == <<addresses, validation_mode, api_key, requests, outcomes>>

\* no address has been handed over and no request has been posted
ServiceIdle ==
  /\ addresses = <<>>
  /\ validation_mode = "FULL"
  /\ api_key = <<>>
  /\ requests = <<>>
  /\ outcomes = <<>>

(***************************************************************************)
(* Pairwise duplicate detection: is_duplicate(contact1, contact2, cache)   *)
(* on two contact dicts, as tests.py drives it, followed by the same       *)
(* question with the arguments exchanged.                                  *)
(***************************************************************************)
PairPool ==
  << \* tests.py: same name, different organizations
     ("Name" :> PyStr(S_ThomasAnderson) @@ "Organization" :> PyStr(S_MatrixCorp)),
     ("Name" :> PyStr(S_ThomasAnderson) @@ "Organization" :> PyStr(S_ZionLtd)),
     ("Name" :> PyStr(S_ThomasAndersen)),
     \* three name parts, with and without a shared phone number
     ("Full Name" :> PyStr(S_JohnAdamSmith)
        @@ "Telephone" :> PyList(<<S_PhoneA>>)),
     ("Full Name" :> PyStr(S_JohnAdamBrown)),
     ("Full Name" :> PyStr(S_JohnPeterMiller)
        @@ "Telephone" :> PyList(<<S_PhoneA2, S_PhoneB>>)),
     \* case and title variants
     ("Full Name" :> PyStr(S_JOHN_SMITH) @@ "Email" :> PyStr(S_EmailJohn)
        @@ "Telephone" :> PyList(<<S_PhoneBad>>)),
     ("Full Name" :> PyStr(S_DrJohnSmith) @@ "Name" :> PyStr(S_JohnSmith)
        @@ "Telephone" :> PyStr(S_PhoneA)),
     \* a repeated name part
     ("Name" :> PyStr(S_JohnJohn)),
     \* no name key at all, and an empty "Full Name" hiding "Name"
     ("Email" :> PyStr(S_EmailAda)),
     ("Full Name" :> EmptyStr @@ "Name" :> PyStr(S_JohnSmith)
        @@ "Telephone" :> PyList(<<S_PhoneA>>)),
     \* the empty dict
     Empty >>

InitPair ==
  /\ \E a \in 1..Len(PairPool), b \in 1..Len(PairPool) :
        heap = (1 :> PairPool[a] @@ 2 :> PairPool[b])
  /\ contacts = <<1, 2>>
  /\ pc = "pair_ready"
  /\ comparison_cache = Empty
  /\ decision = FALSE
  /\ RunIdle
  /\ CoreIdle
  /\ ServiceIdle
  /\ args = <<>>

\* is_duplicate(contact1, contact2, comparison_cache)
PairCall ==
  /\ pc = "pair_ready"
  /\ decision' = is_duplicate(heap, contacts[1], contacts[2], comparison_cache)
  /\ comparison_cache' = CacheAfter(heap, contacts[1], contacts[2], comparison_cache)
  /\ pc' = "pair_called"
  /\ UNCHANGED <<heap, contacts>>
  /\ UNCHANGED runVars
  /\ UNCHANGED coreVars
  /\ UNCHANGED serviceVars
  /\ UNCHANGED args

\* is_duplicate(contact2, contact1, comparison_cache)
PairCallSwapped ==
  /\ pc = "pair_called"
  /\ decision' = is_duplicate(heap, contacts[2], contacts[1], comparison_cache)
  /\ comparison_cache' = CacheAfter(heap, contacts[2], contacts[1], comparison_cache)
  /\ pc' = "pair_recalled"
  /\ UNCHANGED <<heap, contacts>>
  /\ UNCHANGED runVars
  /\ UNCHANGED coreVars
  /\ UNCHANGED serviceVars
  /\ UNCHANGED args

NextPair == PairCall \/ PairCallSwapped

SpecPair == InitPair /\ [][NextPair]_vars

(***************************************************************************)
(* process_contact.merge_duplicates                                        *)
(***************************************************************************)
\* name[:3] of the lowercased contact name
BlockKey(contact) ==
  LET name == Lower(get_contact_name(contact))
  IN SubSeq(name, 1, IF Len(name) < 3 THEN Len(name) ELSE 3)

RECURSIVE IndexContacts(_, _, _)
\* create_contact_index(contacts)
IndexContacts(hp, ids, index) ==
  IF ids = <<>> THEN index
  ELSE LET key == BlockKey(hp[Head(ids)])
       IN IndexContacts(hp, Tail(ids),
            IF key = <<>> THEN index
            ELSE IF key \in DOMAIN index
              THEN [index EXCEPT ![key] = Append(@, Head(ids))]
              ELSE index @@ (key :> <<Head(ids)>>))

create_contact_index(hp, ids) == IndexContacts(hp, ids, Empty)

\* first_chars[:k] + first_chars[k + 1:] for the 0-based position k
KeyVariant(first_chars, k) ==
  SubSeq(first_chars, 1, k) \o SubSeq(first_chars, k + 2, Len(first_chars))

RECURSIVE VariantMatches(_, _, _)
\* the candidates of the blocks of all key variants, from position k on
VariantMatches(index, first_chars, k) ==
  IF k >= Len(first_chars) THEN <<>>
  ELSE Get(index, KeyVariant(first_chars, k), <<>>)
         \o VariantMatches(index, first_chars, k + 1)

\* potential_matches of a contact with block key first_chars
PotentialMatches(index, first_chars) ==
  IF first_chars = <<>> THEN <<>>
  ELSE Get(index, first_chars, <<>>) \o VariantMatches(index, first_chars, 0)

\* the pool a batch is drawn from
RunPool ==
  << ("Full Name" :> PyStr(S_JohnSmith) @@ "Name" :> PyStr(S_JohnSmith)
        @@ "FirstName" :> PyStr(S_John) @@ "LastName" :> PyStr(S_Smith)
        @@ "Email" :> PyStr(S_EmailJohn)
        @@ "Telephone" :> PyList(<<S_PhoneA>>)),
     ("Full Name" :> PyStr(S_JOHN_SMITH) @@ "Email" :> PyStr(S_EmailJohn)
        @@ "Telephone" :> PyList(<<S_PhoneA2, S_PhoneB>>)),
     ("Full Name" :> PyStr(S_JohnAdamBrown)
        @@ "Telephone" :> PyList(<<S_PhoneB>>)),
     ("Name" :> PyStr(S_ThomasAnderson) @@ "Organization" :> PyStr(S_MatrixCorp)),
     ("Name" :> PyStr(S_ThomasAnderson) @@ "Organization" :> PyStr(S_ZionLtd)
        @@ "Telephone" :> PyStr(S_PhoneA)),
     ("Email" :> PyStr(S_EmailAda)) >>

\* the batches: every list of at most MaxContacts records of the pool; the
\* records of a batch are distinct objects with the ids 1..n
Batches ==
  UNION { [1..n -> 1..Len(RunPool)] : n \in 0..MaxContacts }

InitRun ==
  /\ \E b \in Batches :
        /\ heap = [k \in DOMAIN b |-> RunPool[b[k]]]
        /\ contacts = [k \in DOMAIN b |-> k]
  /\ pc = "md_start"
  /\ comparison_cache = Empty
  /\ decision = FALSE
  /\ RunIdle
  /\ CoreIdle
  /\ ServiceIdle
  /\ args = <<>>

\* if not contacts: return []
MD_Empty ==
  /\ pc = "md_start"
  /\ contacts = <<>>
  /\ pc' = "md_done"
  /\ snapshot' = heap
  /\ UNCHANGED <<heap, contacts, comparison_cache, decision, contact_index,
                 processed, merged_groups, merged_groups_map, current_group,
                 potential_matches, i, j, mapping_global, result>>
  /\ UNCHANGED coreVars
  /\ UNCHANGED serviceVars
  /\ UNCHANGED args

\* lines 208-214: index, empty map, empty cache, empty processed set
MD_Start ==
  /\ pc = "md_start"
  /\ contacts # <<>>
  /\ snapshot' = heap
  /\ contact_index' = create_contact_index(heap, contacts)
  /\ merged_groups_map' = Empty
  /\ comparison_cache' = Empty
  /\ processed' = {}
  /\ merged_groups' = <<>>
  /\ i' = 1
  /\ pc' = "md_outer"
  /\ UNCHANGED <<heap, contacts, decision, current_group, potential_matches, j,
                 mapping_global, result>>
  /\ UNCHANGED coreVars
  /\ UNCHANGED serviceVars
  /\ UNCHANGED args

\* for contact in contacts: if id(contact) in processed: continue
MD_Skip ==
  /\ pc = "md_outer"
  /\ i <= Len(contacts)
  /\ contacts[i] \in processed
  /\ i' = i + 1
  /\ UNCHANGED <<heap, contacts, pc, comparison_cache, decision, contact_index,
                 processed, merged_groups, merged_groups_map, current_group,
                 potential_matches, j, mapping_global, result, snapshot>>
  /\ UNCHANGED coreVars
  /\ UNCHANGED serviceVars
  /\ UNCHANGED args

\* lines 220-234: start a group with the contact and collect its candidates
MD_Open ==
  /\ pc = "md_outer"
  /\ i <= Len(contacts)
  /\ contacts[i] \notin processed
  /\ current_group' = <<contacts[i]>>
  /\ merged_groups_map' =
       [k \in DOMAIN merged_groups_map \cup {contacts[i]} |->
          IF k = contacts[i] THEN Len(merged_groups) ELSE merged_groups_map[k]]
  /\ potential_matches' =
       PotentialMatches(contact_index, BlockKey(heap[contacts[i]]))
  /\ j' = 1
  /\ pc' = "md_inner"
  /\ UNCHANGED <<heap, contacts, comparison_cache, decision, contact_index,
                 processed, merged_groups, i, mapping_global, result, snapshot>>
  /\ UNCHANGED coreVars
  /\ UNCHANGED serviceVars
  /\ UNCHANGED args

\* lines 237-242, a candidate that is the contact itself or already processed
MD_Pass ==
  /\ pc = "md_inner"
  /\ j <= Len(potential_matches)
  /\ potential_matches[j] = contacts[i] \/ potential_matches[j] \in processed
  /\ j' = j + 1
  /\ UNCHANGED <<heap, contacts, pc, comparison_cache, decision, contact_index,
                 processed, merged_groups, merged_groups_map, current_group,
                 potential_matches, i, mapping_global, result, snapshot>>
  /\ UNCHANGED coreVars
  /\ UNCHANGED serviceVars
  /\ UNCHANGED args

\* MD_Compare without processed.add(id(other))
MD_Compare_NoMark ==
  /\ pc = "md_inner"
  /\ j <= Len(potential_matches)
  /\ potential_matches[j] # contacts[i]
  /\ potential_matches[j] \notin processed
  /\ LET other == potential_matches[j]
         dup   == is_duplicate(heap, contacts[i], other, comparison_cache)
     IN /\ decision' = dup
        /\ comparison_cache' = CacheAfter(heap, contacts[i], other, comparison_cache)
        /\ current_group' = IF dup THEN Append(current_group, other) ELSE current_group
        /\ merged_groups_map' =
             IF dup
               THEN [k \in DOMAIN merged_groups_map \cup {other} |->
                       IF k = other THEN Len(merged_groups) ELSE merged_groups_map[k]]
               ELSE merged_groups_map
  /\ j' = j + 1
  /\ UNCHANGED <<heap, contacts, pc, contact_index, merged_groups, processed,
                 potential_matches, i, mapping_global, result, snapshot>>
  /\ UNCHANGED coreVars
  /\ UNCHANGED serviceVars
  /\ UNCHANGED args

\* MD_Compare appending every candidate, whatever is_duplicate returns
MD_Compare_AcceptAll ==
  /\ pc = "md_inner"
  /\ j <= Len(potential_matches)
  /\ potential_matches[j] # contacts[i]
  /\ potential_matches[j] \notin processed
  /\ decision' = is_duplicate(heap, contacts[i], potential_matches[j], comparison_cache)
  /\ comparison_cache' =
       CacheAfter(heap, contacts[i], potential_matches[j], comparison_cache)
  /\ current_group' = Append(current_group, potential_matches[j])
  /\ merged_groups_map' =
       [k \in DOMAIN merged_groups_map \cup {potential_matches[j]} |->
          IF k = potential_matches[j] THEN Len(merged_groups)
          ELSE merged_groups_map[k]]
  /\ processed' = processed \cup {potential_matches[j]}
  /\ j' = j + 1
  /\ UNCHANGED <<heap, contacts, pc, contact_index, merged_groups,
                 potential_matches, i, mapping_global, result, snapshot>>
  /\ UNCHANGED coreVars
  /\ UNCHANGED serviceVars
  /\ UNCHANGED args

\* lines 237-242, a candidate that is compared with the contact
MD_Compare ==
  /\ pc = "md_inner"
  /\ j <= Len(potential_matches)
  /\ potential_matches[j] # contacts[i]
  /\ potential_matches[j] \notin processed
  /\ LET other == potential_matches[j]
         dup   == is_duplicate(heap, contacts[i], other, comparison_cache)
     IN /\ decision' = dup
        /\ comparison_cache' = CacheAfter(heap, contacts[i], other, comparison_cache)
        /\ current_group' = IF dup THEN Append(current_group, other) ELSE current_group
        /\ merged_groups_map' =
             IF dup
               THEN [k \in DOMAIN merged_groups_map \cup {other} |->
                       IF k = other THEN Len(merged_groups) ELSE merged_groups_map[k]]
               ELSE merged_groups_map
        /\ processed' = IF dup THEN processed \cup {other} ELSE processed
  /\ j' = j + 1
  /\ UNCHANGED <<heap, contacts, pc, contact_index, merged_groups,
                 potential_matches, i, mapping_global, result, snapshot>>
  /\ UNCHANGED coreVars
  /\ UNCHANGED serviceVars
  /\ UNCHANGED args

\* MD_Close without the test len(current_group) > 1
MD_Close_KeepSingle ==
  /\ pc = "md_inner"
  /\ j > Len(potential_matches)
  /\ merged_groups' = Append(merged_groups, current_group)
  /\ processed' = processed \cup {contacts[i]}
  /\ i' = i + 1
  /\ pc' = "md_outer"
  /\ UNCHANGED <<heap, contacts, comparison_cache, decision, contact_index,
                 merged_groups_map, current_group, potential_matches, j,
                 mapping_global, result, snapshot>>
  /\ UNCHANGED coreVars
  /\ UNCHANGED serviceVars
  /\ UNCHANGED args

\* lines 244-246: keep the group when it has more than one member
MD_Close ==
  /\ pc = "md_inner"
  /\ j > Len(potential_matches)
  /\ merged_groups' =
       IF Len(current_group) > 1 THEN Append(merged_groups, current_group)
       ELSE merged_groups
  /\ processed' = processed \cup {contacts[i]}
  /\ i' = i + 1
  /\ pc' = "md_outer"
  /\ UNCHANGED <<heap, contacts, comparison_cache, decision, contact_index,
                 merged_groups_map, current_group, potential_matches, j,
                 mapping_global, result, snapshot>>
  /\ UNCHANGED coreVars
  /\ UNCHANGED serviceVars
  /\ UNCHANGED args

\* lines 250-255: publish the grouping in the module global
MD_Store ==
  /\ pc = "md_outer"
  /\ i > Len(contacts)
  /\ mapping_global' = [groups |-> merged_groups, map |-> merged_groups_map]
  /\ result' = <<>>
  /\ i' = 1
  /\ pc' = "md_merge"
  /\ UNCHANGED <<heap, contacts, comparison_cache, decision, contact_index,
                 processed, merged_groups, merged_groups_map, current_group,
                 potential_matches, j, snapshot>>
  /\ UNCHANGED coreVars
  /\ UNCHANGED serviceVars
  /\ UNCHANGED args

\* id of the dict that merge_contact_group creates: an id not in use
NewRecordId(hp) == (CHOOSE k \in DOMAIN hp : \A h \in DOMAIN hp : h <= k) + 1

\* the records the ids of a group name, in the order of the group
RecordsOf(hp, group) == [k \in 1..Len(group) |-> hp[group[k]]]

\* every record merge_contact_group(duplicates) can return: one for every
\* iteration order of the sets first_names, last_names and all_names[key]
MergedRecords(duplicates) ==
  { merge_contact_group(duplicates, first, last,
      ("Full Name" :> o1 @@ "FirstName" :> o2 @@ "LastName" :> o3
         @@ "Name" :> o4 @@ "Structured Name" :> o5), confidence) :
      first \in MergedNames(first_names(duplicates)),
      last \in MergedNames(last_names(duplicates)),
      o1 \in Perms(all_names(duplicates, "Full Name")),
      o2 \in Perms(all_names(duplicates, "FirstName")),
      o3 \in Perms(all_names(duplicates, "LastName")),
      o4 \in Perms(all_names(duplicates, "Name")),
      o5 \in Perms(all_names(duplicates, "Structured Name")),
      confidence \in { GeometricMean(confidence_scores(duplicates)) } }

\* MD_MergeGroup merging into the first member of the group instead of a new dict
MD_MergeGroup_InPlace ==
  /\ pc = "md_merge"
  /\ i <= Len(merged_groups)
  /\ \E merged \in MergedRecords(RecordsOf(heap, merged_groups[i])) :
        heap' = [heap EXCEPT ![merged_groups[i][1]] = merged]
  /\ result' = Append(result, merged_groups[i][1])
  /\ i' = i + 1
  /\ UNCHANGED <<contacts, pc, comparison_cache, decision, contact_index,
                 processed, merged_groups, merged_groups_map, current_group,
                 potential_matches, j, mapping_global, snapshot>>
  /\ UNCHANGED coreVars
  /\ UNCHANGED serviceVars
  /\ UNCHANGED args

\* lines 258-259: result.append(merge_contact_group(group, validation_mode))
MD_MergeGroup ==
  /\ pc = "md_merge"
  /\ i <= Len(merged_groups)
  /\ \E merged \in MergedRecords(RecordsOf(heap, merged_groups[i])) :
        heap' = heap @@ (NewRecordId(heap) :> merged)
  /\ result' = Append(result, NewRecordId(heap))
  /\ i' = i + 1
  /\ UNCHANGED <<contacts, pc, comparison_cache, decision, contact_index,
                 processed, merged_groups, merged_groups_map, current_group,
                 potential_matches, j, mapping_global, snapshot>>
  /\ UNCHANGED coreVars
  /\ UNCHANGED serviceVars
  /\ UNCHANGED args

\* lines 262-266: append the contacts of no group and return
MD_Return ==
  /\ pc = "md_merge"
  /\ i > Len(merged_groups)
  /\ LET processed_in_groups ==
           UNION { Range(merged_groups[g]) : g \in 1..Len(merged_groups) }
         InNoGroup(c) == c \notin processed_in_groups
     IN result' = result \o SelectSeq(contacts, InNoGroup)
  /\ pc' = "md_done"
  /\ UNCHANGED <<heap, contacts, comparison_cache, decision, contact_index,
                 processed, merged_groups, merged_groups_map, current_group,
                 potential_matches, i, j, mapping_global, snapshot>>
  /\ UNCHANGED coreVars
  /\ UNCHANGED serviceVars
  /\ UNCHANGED args

NextRun ==
  \/ MD_Empty \/ MD_Start \/ MD_Skip \/ MD_Open \/ MD_Pass \/ MD_Compare
  \/ MD_Close \/ MD_Store \/ MD_MergeGroup \/ MD_Return

SpecRun == InitRun /\ [][NextRun]_vars

(***************************************************************************)
(* process_contact.merge_contact_group called on a cluster                 *)
(***************************************************************************)
\* the clusters: every list of at most MaxContacts records of the pool
InitGroup ==
  /\ \E b \in Batches :
        /\ heap = [k \in DOMAIN b |-> RunPool[b[k]]]
        /\ contacts = [k \in DOMAIN b |-> k]
  /\ pc = "mcg_ready"
  /\ comparison_cache = Empty
  /\ decision = FALSE
  /\ RunIdle
  /\ CoreIdle
  /\ ServiceIdle
  /\ args = <<>>

\* merged = merge_contact_group(contacts)
MCG_Call ==
  /\ pc = "mcg_ready"
  /\ \E merged \in MergedRecords(RecordsOf(heap, contacts)) :
        heap' = heap @@ ((Len(contacts) + 1) :> merged)
  /\ result' = <<Len(contacts) + 1>>
  /\ snapshot' = heap
  /\ pc' = "mcg_done"
  /\ UNCHANGED <<contacts, comparison_cache, decision, contact_index, processed,
                 merged_groups, merged_groups_map, current_group,
                 potential_matches, i, j, mapping_global>>
  /\ UNCHANGED coreVars
  /\ UNCHANGED serviceVars
  /\ UNCHANGED args

NextGroup == MCG_Call

SpecGroup == InitGroup /\ [][NextGroup]_vars

(***************************************************************************)
(* Properties of is_duplicate (SpecPair)                                   *)
(***************************************************************************)
\* is_duplicate has returned
PairDecided == pc \in {"pair_called", "pair_recalled"}

\* both records of the pair are non-empty dicts
PairNonEmpty == DOMAIN heap[1] # {} /\ DOMAIN heap[2] # {}

PairMatching == matching_parts(DupParts(heap[1]), DupParts(heap[2]))

PairTotal ==
  IF Len(DupParts(heap[1])) >= Len(DupParts(heap[2]))
    THEN Len(DupParts(heap[1])) ELSE Len(DupParts(heap[2]))

PairSharePhone == PhoneSet(heap[1]) \cap PhoneSet(heap[2]) # {}

\* C4 as the specification states it: for two non-empty records is_duplicate
\* returns true exactly when the phone sets intersect and
\* name_match_ratio >= 1/3, or name_match_ratio >= 2/3.
C4_ExactThirds ==
  (PairDecided /\ PairNonEmpty) =>
    (decision <=>
       /\ PairTotal > 0
       /\ \/ PairSharePhone /\ 3 * PairMatching >= PairTotal
          \/ 3 * PairMatching >= 2 * PairTotal)

\* C4, corrected: is_duplicate returns false when a record is empty, and for
\* two non-empty records it returns true exactly when the phone sets intersect
\* and name_match_ratio >= 0.33, or name_match_ratio >= 0.67; so 1 of 3 parts
\* matching with a shared phone is a match and 2 of 3 parts matching without a
\* shared phone is not.
C4_DecimalThresholds ==
  PairDecided =>
    /\ ~PairNonEmpty => ~decision
    /\ PairNonEmpty =>
         (decision <=>
            /\ PairTotal > 0
            /\ \/ PairSharePhone /\ 100 * PairMatching >= 33 * PairTotal
               \/ 100 * PairMatching >= 67 * PairTotal)
    /\ (PairNonEmpty /\ PairMatching = 2 /\ PairTotal = 3 /\ ~PairSharePhone)
         => ~decision
    /\ (PairNonEmpty /\ PairMatching = 1 /\ PairTotal = 3 /\ PairSharePhone)
         => decision

\* a pair with 2 of 3 parts matching and no shared phone, and the call made
C4_Witness ==
  /\ PairDecided /\ PairNonEmpty
  /\ PairMatching = 2 /\ PairTotal = 3 /\ ~PairSharePhone
  /\ ~decision

\* C5: is_duplicate returns false for two contacts with identical names and
\* different non-empty Organization values.
C5_DifferentOrganizations ==
  ( /\ PairDecided /\ PairNonEmpty
    /\ get_contact_name(heap[1]) = get_contact_name(heap[2])
    /\ StrOf(heap[1], "Organization") # <<>>
    /\ StrOf(heap[2], "Organization") # <<>>
    /\ StrOf(heap[1], "Organization") # StrOf(heap[2], "Organization") )
  => ~decision

(***************************************************************************)
(* Properties of merge_duplicates (SpecRun)                                *)
(***************************************************************************)
RunDone == pc = "md_done"

\* the places of contact c in the groups
PlacesInGroups(c) ==
  { q \in (1..Len(merged_groups)) \X (1..MaxContacts + 1) :
      q[2] <= Len(merged_groups[q[1]]) /\ merged_groups[q[1]][q[2]] = c }

\* the places of contact c in the returned list
PlacesInResult(c) == { k \in 1..Len(result) : result[k] = c }

\* C1: merge_duplicates accounts for every input contact exactly once: it is
\* returned itself or it is a member of exactly one merged group at exactly
\* one place, and every group is returned as one merged record.
C1_ExactlyOnce ==
  RunDone =>
    /\ \A k \in 1..Len(contacts) :
         Cardinality(PlacesInGroups(contacts[k]))
           + Cardinality(PlacesInResult(contacts[k])) = 1
    /\ Cardinality({ k \in 1..Len(result) : result[k] \notin Range(contacts) })
         = Len(merged_groups)

\* a run of three contacts that merged two of them and returned the third
C1_Witness ==
  /\ RunDone /\ Len(contacts) = 3
  /\ Len(merged_groups) = 1 /\ Len(merged_groups[1]) = 2
  /\ Len(result) = 2 /\ result[2] \in Range(contacts)

\* b is among the candidates merge_duplicates collects for a
Candidate(a, b) ==
  b \in Range(PotentialMatches(create_contact_index(heap, contacts),
                               BlockKey(heap[a])))

\* a and b are a candidate pair that is_duplicate accepts
Accepted(a, b) ==
  /\ a # b
  /\ Candidate(a, b) \/ Candidate(b, a)
  /\ is_duplicate(heap, a, b, Empty)

\* a and b are linked by a chain of accepted candidate pairs
Linked(a, b) ==
  \E m \in 1..Len(contacts) : \E path \in [1..m -> Range(contacts)] :
     /\ path[1] = a /\ path[m] = b
     /\ \A k \in 1..(m - 1) : Accepted(path[k], path[k + 1])

\* a and b end in the same cluster
SameCluster(a, b) ==
  \/ a = b
  \/ \E g \in 1..Len(merged_groups) :
        a \in Range(merged_groups[g]) /\ b \in Range(merged_groups[g])

C9_InputsUnchanged ==
  pc \in {"md_outer", "md_inner", "md_merge", "md_done"} =>
    /\ \A k \in DOMAIN snapshot : k \in DOMAIN heap /\ heap[k] = snapshot[k]
    /\ \A g \in 1..Len(result) :
         g <= Len(merged_groups) => result[g] \notin DOMAIN snapshot

\* a finished run that returned a merged record differing from every member
C9_Witness ==
  /\ RunDone /\ Len(merged_groups) >= 1
  /\ \A k \in 1..Len(merged_groups[1]) :
       heap[result[1]] # heap[merged_groups[1][k]]

(***************************************************************************)
(* Properties of merge_contact_group (SpecGroup)                           *)
(***************************************************************************)
GroupDone == pc = "mcg_done"

\* the record merge_contact_group returned
Merged == heap[result[1]]

\* the confidence stored on the merged record lies within [0, 1]: it is a
\* root of the radicand, so it does iff the radicand does
ConfidenceInUnit(record) ==
  /\ RLe(RZero, record["Match Confidence"].v.radicand)
  /\ RLe(record["Match Confidence"].v.radicand, ROne)

\* C6: merge_contact_group applied to a cluster of exactly one contact returns
\* a record whose match confidence is 0.
C6_SingletonConfidenceZero ==
  (GroupDone /\ Len(contacts) = 1) =>
    Merged["Match Confidence"].v.radicand = RZero

\* the entries of a field of the merged record, as a list
EntriesOf(record, key) ==
  IF key \notin DOMAIN record THEN <<>>
  ELSE IF record[key].t = "list" THEN record[key].v ELSE <<record[key].v>>

\* C7: the merged email list holds no two entries that are equal ignoring
\* case, and the merged phone list no two entries with the same canonical form.
C7_NoDuplicateEntries ==
  GroupDone =>
    /\ \A a, b \in 1..Len(EntriesOf(Merged, "Email")) :
         a # b => Lower(EntriesOf(Merged, "Email")[a])
                    # Lower(EntriesOf(Merged, "Email")[b])
    /\ \A a, b \in 1..Len(EntriesOf(Merged, "Telephone")) :
         a # b => normalize_phone(EntriesOf(Merged, "Telephone")[a])
                    # normalize_phone(EntriesOf(Merged, "Telephone")[b])

\* C8: calculate_match_confidence lies within [0, 1] for every pair of
\* contacts, and so does the Match Confidence stored on a merged contact.
C8_ConfidenceInUnitInterval ==
  /\ \A a, b \in Range(contacts) :
       /\ RLe(RZero, calculate_match_confidence(heap[a], heap[b]))
       /\ RLe(calculate_match_confidence(heap[a], heap[b]), ROne)
  /\ GroupDone => ConfidenceInUnit(Merged)

\* a merged cluster holding a pair whose weighted sum exceeds 1
C8_Witness ==
  /\ GroupDone /\ Len(contacts) >= 2
  /\ \E a, b \in Range(contacts) :
       /\ ~RLe(RawScore(heap[a], heap[b]), ROne)
       /\ calculate_match_confidence(heap[a], heap[b]) = ROne

(***************************************************************************)
(* src/core: Contact objects, NameProcessor, ContactMatcher and            *)
(* ContactMerger.  A Contact is a record of its attributes; an address is   *)
(* a dict from field names to str.                                         *)
(***************************************************************************)
\* number of merge_contacts calls made on one ContactMerger object
MaxRuns == 2

\* length of the lists passed to the calls after the first
MaxRerunContacts == 2

\* Contact(): the attributes the constructor sets when it is given no data
Contact ==
  [full_name |-> <<>>, first_name |-> <<>>, last_name |-> <<>>,
   organization |-> <<>>, emails |-> <<>>, phones |-> <<>>, addresses |-> <<>>,
   match_confidence |-> [radicand |-> RZero, index |-> 1]]

RECURSIVE CollapseWs(_)
\* re.sub(r"\s+", " ", name)
CollapseWs(s) ==
  IF s = <<>> THEN <<>>
  ELSE IF IsSpace(Head(s))
    THEN (IF Len(s) >= 2 /\ IsSpace(s[2]) THEN CollapseWs(Tail(s))
          ELSE Space \o CollapseWs(Tail(s)))
  ELSE <<Head(s)>> \o CollapseWs(Tail(s))

\* NameProcessor.titles
NameProcessor_titles ==
  << <<"p","r","o","f">>, <<"d","r">>, <<"m","r">>, <<"m","r","s">>,
     <<"m","s">>, <<"p","h","d">> >>

RECURSIVE CleanTitlesFrom(_, _)
\* the title loop of _clean_name; get_index_key passes a lowercased name, so
\* re.IGNORECASE changes nothing
CleanTitlesFrom(s, k) ==
  IF k > Len(NameProcessor_titles) THEN s
  ELSE CleanTitlesFrom(SubTitle(s, NameProcessor_titles[k]), k + 1)

\* NameProcessor._clean_name(name) for a lowercased name
NameProcessor_clean_name(name) == Strip(CleanTitlesFrom(CollapseWs(name), 1))

\* the first three characters of a str
FirstThree(s) == SubSeq(s, 1, IF Len(s) < 3 THEN Len(s) ELSE 3)

\* NameProcessor.get_index_key(name)
get_index_key(name) ==
  IF name = <<>> THEN <<>> ELSE FirstThree(NameProcessor_clean_name(Lower(name)))

RECURSIVE TitleFrom(_, _)
\* str.title(): a letter that follows a letter is lowercased, any other
\* letter is uppercased
TitleFrom(s, afterLetter) ==
  IF s = <<>> THEN <<>>
  ELSE <<IF afterLetter THEN LowerChar(Head(s)) ELSE UpperChar(Head(s))>>
         \o TitleFrom(Tail(s), Head(s) \in LowerLetters \cup UpperLetters)

\* str.replace(".", " ")
DotsToSpaces(s) == [k \in 1..Len(s) |-> IF s[k] = "." THEN " " ELSE s[k]]

\* contact.emails[0].split('@')[0].replace('.', ' ').title()
EmailName(email) == TitleFrom(DotsToSpaces(SplitOn(email, "@")[1]), FALSE)

\* ' '.join(filter(None, [a, b]))
JoinNonEmpty(a, b) ==
  JoinWith(Space, (IF a # <<>> THEN <<a>> ELSE <<>>)
                    \o (IF b # <<>> THEN <<b>> ELSE <<>>))

\* NameProcessor.get_contact_name(contact)
NameProcessor_get_contact_name(contact) ==
  IF contact.full_name # <<>> THEN contact.full_name
  ELSE IF contact.first_name # <<>> \/ contact.last_name # <<>>
    THEN JoinNonEmpty(contact.first_name, contact.last_name)
  ELSE IF contact.organization # <<>> THEN contact.organization
  ELSE IF contact.emails # <<>> THEN EmailName(contact.emails[1])
  ELSE IF contact.phones # <<>> THEN contact.phones[1]
  ELSE Unknown

\* parts1 / parts2 of ContactMatcher.is_duplicate
CoreParts(contact) ==
  NameParts(RemoveTitles(Lower(NameProcessor_get_contact_name(contact))))

\* the larger of two numbers
Max(a, b) == IF a >= b THEN a ELSE b

\* the decision ContactMatcher.is_duplicate computes for name parts parts1
\* and parts2
CoreDecisionOf(contact1, contact2, parts1, parts2) ==
  \/ /\ Range(contact1.phones) \cap Range(contact2.phones) # {}
     /\ NameRatioAtLeast(matching_parts(parts1, parts2),
                         Max(Len(parts1), Len(parts2)), PhoneNameRatioPct)
  \/ NameRatioAtLeast(matching_parts(parts1, parts2),
                      Max(Len(parts1), Len(parts2)), NameOnlyRatioPct)

\* the decision of ContactMatcher.is_duplicate when it is not served from
\* the cache
CoreDecision(contact1, contact2) ==
  Only({ CoreDecisionOf(contact1, contact2, parts1, parts2) :
           parts1 \in { CoreParts(contact1) }, parts2 \in { CoreParts(contact2) } })

\* ContactMatcher.is_duplicate(contact1, contact2): the returned decision
ContactMatcher_is_duplicate(hp, id1, id2, cache) ==
  IF CacheKey(id1, id2) \in DOMAIN cache THEN cache[CacheKey(id1, id2)]
  ELSE CoreDecision(hp[id1], hp[id2])

\* self.comparison_cache after ContactMatcher.is_duplicate(contact1, contact2)
ContactMatcher_cache_after(hp, id1, id2, cache) ==
  IF CacheKey(id1, id2) \in DOMAIN cache THEN cache
  ELSE cache @@ (CacheKey(id1, id2) :> CoreDecision(hp[id1], hp[id2]))

RECURSIVE RSum(_)
\* sum of a list of rationals
RSum(terms) == IF terms = <<>> THEN RZero ELSE RAdd(Head(terms), RSum(Tail(terms)))

\* the four compared address fields with their weights
AddressFields ==
  << <<"street", WeightStreet>>, <<"locality", WeightCity>>,
     <<"postal_code", WeightPostalCode>>, <<"country", WeightCountry>> >>

\* the address loop of ContactMatcher.calculate_match_confidence
AddressTerms(addresses1, addresses2) ==
  RSum([n \in 1..(Len(addresses1) * Len(addresses2) * 4) |->
          FuzzyTerm(
            Get(addresses1[((n - 1) \div (4 * Len(addresses2))) + 1],
                AddressFields[((n - 1) % 4) + 1][1], <<>>),
            Get(addresses2[(((n - 1) \div 4) % Len(addresses2)) + 1],
                AddressFields[((n - 1) % 4) + 1][1], <<>>),
            AddressFields[((n - 1) % 4) + 1][2], 8, 10)])

\* any(e1.lower() == e2.lower() for e1 in emails1 for e2 in emails2)
CoreEmailTerm(contact1, contact2) ==
  IF \E a \in 1..Len(contact1.emails), b \in 1..Len(contact2.emails) :
        Lower(contact1.emails[a]) = Lower(contact2.emails[b])
    THEN Tenths(WeightEmail) ELSE RZero

\* the first + last name term of ContactMatcher.calculate_match_confidence
CoreFirstLastTerm(first1, first2, last1, last2) ==
  IF first1 # <<>> /\ first2 # <<>> /\ last1 # <<>> /\ last2 # <<>>
       /\ RatioGt(string_similarity(first1, first2), 8, 10)
       /\ RatioGt(string_similarity(last1, last2), 8, 10)
    THEN RMul(Tenths(WeightFirstLast),
              RMul(<<1, 2>>, RAdd(RNorm(string_similarity(first1, first2)),
                                  RNorm(string_similarity(last1, last2)))))
    ELSE RZero

\* ContactMatcher.calculate_match_confidence(contact1, contact2)
ContactMatcher_calculate_match_confidence(contact1, contact2) ==
  MinOne(
    RAdd(CoreEmailTerm(contact1, contact2),
    RAdd(FuzzyTerm(contact1.full_name, contact2.full_name, WeightFullName, 9, 10),
    RAdd(CoreFirstLastTerm(contact1.first_name, contact2.first_name,
                           contact1.last_name, contact2.last_name),
    RAdd(FuzzyTerm(contact1.organization, contact2.organization,
                   WeightOrganization, 8, 10),
         AddressTerms(contact1.addresses, contact2.addresses))))))

RECURSIVE CoreIndex(_, _, _)
\* ContactMatcher._create_contact_index(contacts)
CoreIndex(hp, ids, index) ==
  IF ids = <<>> THEN index
  ELSE CoreIndex(hp, Tail(ids),
         IF get_index_key(hp[Head(ids)].full_name) = <<>> THEN index
         ELSE IF get_index_key(hp[Head(ids)].full_name) \in DOMAIN index
           THEN [index EXCEPT ![get_index_key(hp[Head(ids)].full_name)] =
                   Append(@, Head(ids))]
           ELSE index @@ (get_index_key(hp[Head(ids)].full_name) :> <<Head(ids)>>))

RECURSIVE SecondPass(_, _, _)
\* the second pass of find_duplicates: every contact not yet processed
\* becomes a single-item group
SecondPass(ids, done, groups) ==
  IF ids = <<>> THEN groups
  ELSE IF Head(ids) \in done THEN SecondPass(Tail(ids), done, groups)
  ELSE SecondPass(Tail(ids), done \cup {Head(ids)}, Append(groups, <<Head(ids)>>))

RECURSIVE InsertBySize(_, _)
\* insert group g behind every group that is not shorter
InsertBySize(sorted, g) ==
  IF sorted = <<>> THEN <<g>>
  ELSE IF Len(Head(sorted)) >= Len(g)
    THEN <<Head(sorted)>> \o InsertBySize(Tail(sorted), g)
    ELSE <<g>> \o sorted

RECURSIVE SortBySize(_)
\* groups.sort(key=len, reverse=True), which is stable
SortBySize(groups) ==
  IF groups = <<>> THEN <<>>
  ELSE InsertBySize(SortBySize(SubSeq(groups, 1, Len(groups) - 1)),
                    groups[Len(groups)])

RECURSIVE SplitVariantsFrom(_)
\* the non-empty word lists of a list of comma-separated variants
SplitVariantsFrom(variants) ==
  IF variants = <<>> THEN <<>>
  ELSE (IF Split(Head(variants)) # <<>> THEN <<Split(Head(variants))>> ELSE <<>>)
         \o SplitVariantsFrom(Tail(variants))

\* NameProcessor.split_name_variants(name)
split_name_variants(name) ==
  IF name = <<>> THEN <<>>
  ELSE SplitVariantsFrom(SplitOn(ReplaceEscapedComma(name), ","))

RECURSIVE Flatten(_)
\* the concatenation of a list of lists
Flatten(lists) == IF lists = <<>> THEN <<>> ELSE Head(lists) \o Flatten(Tail(lists))

RECURSIVE PosInVariant(_, _)
\* position of word k of the flattened variant lists within its variant
PosInVariant(parts_list, k) ==
  IF k <= Len(parts_list[1]) THEN k - 1
  ELSE PosInVariant(Tail(parts_list), k - Len(parts_list[1]))

\* seen_positions[part]: the position of the first occurrence of the part
SeenPosition(parts_list, part) ==
  PosInVariant(parts_list,
    CHOOSE k \in 1..Len(Flatten(parts_list)) :
      /\ Flatten(parts_list)[k] = part
      /\ \A h \in 1..(k - 1) : Flatten(parts_list)[h] # part)

RECURSIVE InsertByPosition(_, _, _)
\* insert part behind every part whose position is not larger
InsertByPosition(sorted, part, parts_list) ==
  IF sorted = <<>> THEN <<part>>
  ELSE IF SeenPosition(parts_list, Head(sorted)) <= SeenPosition(parts_list, part)
    THEN <<Head(sorted)>> \o InsertByPosition(Tail(sorted), part, parts_list)
    ELSE <<part>> \o sorted

RECURSIVE SortByPosition(_, _)
\* sorted(seen_positions.keys(), key=lambda x: seen_positions[x])
SortByPosition(parts, parts_list) ==
  IF parts = <<>> THEN <<>>
  ELSE InsertByPosition(
         SortByPosition(SubSeq(parts, 1, Len(parts) - 1), parts_list),
         parts[Len(parts)], parts_list)

\* NameProcessor.merge_name_parts(parts_list)
merge_name_parts(parts_list) ==
  IF parts_list = <<>> THEN <<>>
  ELSE IF /\ Len(parts_list) > 1
          /\ ~ \E k \in 2..Len(parts_list) :
                 Range(parts_list[1]) \cap Range(parts_list[k]) # {}
    THEN JoinWith(CommaSpace,
           [k \in 1..Len(parts_list) |-> JoinWith(Space, parts_list[k])])
    ELSE JoinWith(Space,
           SortByPosition(DedupKeepOrder(Flatten(parts_list), {}), parts_list))

\* NameProcessor.merge_names([name1, name2])
NameProcessor_merge_names(name1, name2) ==
  Only({ merge_name_parts(parts_list) :
           parts_list \in { split_name_variants(name1) \o split_name_variants(name2) } })

RECURSIVE CoreNameOrder(_, _, _)
\* first = next(iter(names)); for name in names: if name != first:
\*     first = self.name_processor.merge_names([first, name])
CoreNameOrder(order, k, first) ==
  IF k > Len(order) THEN first
  ELSE IF order[k] = first THEN CoreNameOrder(order, k + 1, first)
  ELSE Only({ CoreNameOrder(order, k + 1, merged) :
                merged \in { NameProcessor_merge_names(first, order[k]) } })

\* the merged name of a non-empty set iterated in the given order, "" for
\* the empty set
CoreNameSet(order) == IF order = <<>> THEN <<>> ELSE CoreNameOrder(order, 1, order[1])

\* the set first_names (attr = "first_name") or last_names (attr =
\* "last_name") of ContactMerger.merge_contact_group
CoreNames(duplicates, attr) ==
  UNION { IF duplicates[k][attr] = <<>> THEN {}
          ELSE Range(StripAll(SplitOn(duplicates[k][attr], ","))) :
          k \in 1..Len(duplicates) }

\* the lists merged.emails, merged.phones, merged.addresses after the loop
Extended(duplicates, attr) ==
  Flatten([k \in 1..Len(duplicates) |-> duplicates[k][attr]])

\* the confidence of every member against duplicates[0], itself included
core_confidence_scores(duplicates) ==
  [k \in 1..Len(duplicates) |->
     ContactMatcher_calculate_match_confidence(duplicates[1], duplicates[k])]

\* the Contact that ContactMerger.merge_contact_group (merger.py) returns
\* for the merged names and the iteration orders of set(emails), set(phones)
CoreMerged(duplicates, first, last, oemails, ophones) ==
  [Contact EXCEPT
     !.first_name = first,
     !.last_name = last,
     !.full_name = JoinNonEmpty(first, last),
     !.emails = oemails,
     !.phones = ophones,
     !.match_confidence = GeometricMean(core_confidence_scores(duplicates))]

\* every Contact merge_contact_group can return for a group without
\* addresses: one for every iteration order of the sets
CoreMergedRecords(duplicates) ==
  { CoreMerged(duplicates, CoreNameSet(ofirst), CoreNameSet(olast), oemails, ophones) :
      ofirst \in Perms(CoreNames(duplicates, "first_name")),
      olast \in Perms(CoreNames(duplicates, "last_name")),
      oemails \in Perms(Range(Extended(duplicates, "emails"))),
      ophones \in Perms(Range(Extended(duplicates, "phones"))) }

\* the Contact objects the lists are drawn from
CorePool ==
  << [Contact EXCEPT !.full_name = S_JohnSmith, !.first_name = S_John,
                     !.last_name = S_Smith, !.emails = <<S_EmailJohn>>,
                     !.phones = <<S_PhoneA>>],
     [Contact EXCEPT !.full_name = S_JOHN_SMITH, !.first_name = S_John,
                     !.last_name = S_Smith,
                     !.emails = <<S_EmailJohnUpper, S_EmailJohn>>,
                     !.phones = <<S_PhoneA2, S_PhoneA>>],
     [Contact EXCEPT !.full_name = S_JohnAdamBrown, !.first_name = S_John,
                     !.last_name = S_JohnAdamBrown, !.phones = <<S_PhoneB>>],
     [Contact EXCEPT !.full_name = S_ThomasAnderson,
                     !.organization = S_MatrixCorp],
     [Contact EXCEPT !.full_name = S_JohnSmith, !.first_name = S_John,
                     !.last_name = S_Smith,
                     !.addresses = <<("street" :> S_MainSt @@ "locality" :> S_Berlin)>>],
     [Contact EXCEPT !.emails = <<S_EmailAda>>] >>

\* the lists of the first call
CoreBatches == UNION { [1..n -> 1..Len(CorePool)] : n \in 0..MaxContacts }

\* the lists of the later calls
RerunBatches == UNION { [1..n -> 1..Len(CorePool)] : n \in 0..MaxRerunContacts }

\* the largest id in use, 0 when there is none
MaxId(hp) ==
  IF DOMAIN hp = {} THEN 0 ELSE CHOOSE k \in DOMAIN hp : \A h \in DOMAIN hp : h <= k

\* merger = ContactMerger(...): ContactMatcher.__init__ sets an empty
\* comparison_cache; the first merge_contacts(contacts) is about to start
InitCore ==
  /\ \E b \in CoreBatches :
        /\ heap = [k \in DOMAIN b |-> CorePool[b[k]]]
        /\ contacts = [k \in DOMAIN b |-> k]
  /\ pc = "core_start"
  /\ comparison_cache = Empty
  /\ decision = FALSE
  /\ RunIdle
  /\ run = 1
  /\ cache_run = Empty
  /\ hit_from = 0
  /\ ServiceIdle
  /\ args = <<>>

\* merge_contacts: if not contacts: return []
Core_Empty ==
  /\ pc = "core_start"
  /\ contacts = <<>>
  /\ result' = <<>>
  /\ snapshot' = heap
  /\ pc' = "core_done"
  /\ UNCHANGED <<heap, contacts, comparison_cache, decision, contact_index,
                 processed, merged_groups, merged_groups_map, current_group,
                 potential_matches, i, j, mapping_global>>
  /\ UNCHANGED coreVars
  /\ UNCHANGED serviceVars
  /\ UNCHANGED args

\* find_duplicates, lines 254-256: the index, processed and groups
Core_Start ==
  /\ pc = "core_start"
  /\ contacts # <<>>
  /\ snapshot' = heap
  /\ contact_index' = CoreIndex(heap, contacts, Empty)
  /\ processed' = {}
  /\ merged_groups' = <<>>
  /\ i' = 1
  /\ pc' = "core_first"
  /\ UNCHANGED <<heap, contacts, comparison_cache, decision, merged_groups_map,
                 current_group, potential_matches, j, mapping_global, result>>
  /\ UNCHANGED coreVars
  /\ UNCHANGED serviceVars
  /\ UNCHANGED args

\* first pass: if id(contact) in processed: continue
Core_Skip ==
  /\ pc = "core_first"
  /\ i <= Len(contacts)
  /\ contacts[i] \in processed
  /\ i' = i + 1
  /\ UNCHANGED <<heap, contacts, pc, comparison_cache, decision, contact_index,
                 processed, merged_groups, merged_groups_map, current_group,
                 potential_matches, j, mapping_global, result, snapshot>>
  /\ UNCHANGED coreVars
  /\ UNCHANGED serviceVars
  /\ UNCHANGED args

\* first pass, lines 263-266: the group of the contact and its bucket
Core_Open ==
  /\ pc = "core_first"
  /\ i <= Len(contacts)
  /\ contacts[i] \notin processed
  /\ current_group' = <<contacts[i]>>
  /\ potential_matches' =
       Get(contact_index, get_index_key(heap[contacts[i]].full_name), <<>>)
  /\ j' = 1
  /\ pc' = "core_inner"
  /\ UNCHANGED <<heap, contacts, comparison_cache, decision, contact_index,
                 processed, merged_groups, merged_groups_map, i, mapping_global,
                 result, snapshot>>
  /\ UNCHANGED coreVars
  /\ UNCHANGED serviceVars
  /\ UNCHANGED args

\* line 268 is false: the other is the contact itself or is processed
Core_Pass ==
  /\ pc = "core_inner"
  /\ j <= Len(potential_matches)
  /\ potential_matches[j] = contacts[i] \/ potential_matches[j] \in processed
  /\ j' = j + 1
  /\ UNCHANGED <<heap, contacts, pc, comparison_cache, decision, contact_index,
                 processed, merged_groups, merged_groups_map, current_group,
                 potential_matches, i, mapping_global, result, snapshot>>
  /\ UNCHANGED coreVars
  /\ UNCHANGED serviceVars
  /\ UNCHANGED args

\* lines 268-271: self.is_duplicate(contact, other) with the cache of the
\* ContactMatcher object
Core_Compare ==
  /\ pc = "core_inner"
  /\ j <= Len(potential_matches)
  /\ potential_matches[j] # contacts[i]
  /\ potential_matches[j] \notin processed
  /\ \E dup \in { ContactMatcher_is_duplicate(heap, contacts[i],
                    potential_matches[j], comparison_cache) } :
        /\ decision' = dup
        /\ current_group' =
             IF dup THEN Append(current_group, potential_matches[j])
             ELSE current_group
        /\ processed' =
             IF dup THEN processed \cup {potential_matches[j]} ELSE processed
  /\ comparison_cache' =
       ContactMatcher_cache_after(heap, contacts[i], potential_matches[j],
                                  comparison_cache)
  /\ hit_from' =
       IF CacheKey(contacts[i], potential_matches[j]) \in DOMAIN comparison_cache
         THEN cache_run[CacheKey(contacts[i], potential_matches[j])] ELSE 0
  /\ cache_run' =
       IF CacheKey(contacts[i], potential_matches[j]) \in DOMAIN comparison_cache
         THEN cache_run
         ELSE cache_run @@ (CacheKey(contacts[i], potential_matches[j]) :> run)
  /\ j' = j + 1
  /\ UNCHANGED <<heap, contacts, pc, contact_index, merged_groups,
                 merged_groups_map, potential_matches, i, mapping_global, result,
                 snapshot, run>>
  /\ UNCHANGED serviceVars
  /\ UNCHANGED args

\* lines 273-275: keep the group when duplicates were found
Core_Close ==
  /\ pc = "core_inner"
  /\ j > Len(potential_matches)
  /\ merged_groups' =
       IF Len(current_group) > 1 THEN Append(merged_groups, current_group)
       ELSE merged_groups
  /\ processed' = processed \cup {contacts[i]}
  /\ i' = i + 1
  /\ pc' = "core_first"
  /\ UNCHANGED <<heap, contacts, comparison_cache, decision, contact_index,
                 merged_groups_map, current_group, potential_matches, j,
                 mapping_global, result, snapshot>>
  /\ UNCHANGED coreVars
  /\ UNCHANGED serviceVars
  /\ UNCHANGED args

\* lines 277-285: the second pass and the sort; find_duplicates returns
Core_Found ==
  /\ pc = "core_first"
  /\ i > Len(contacts)
  /\ merged_groups' = SortBySize(SecondPass(contacts, processed, merged_groups))
  /\ processed' = processed \cup Range(contacts)
  /\ pc' = "core_found"
  /\ UNCHANGED <<heap, contacts, comparison_cache, decision, contact_index,
                 merged_groups_map, current_group, potential_matches, i, j,
                 mapping_global, result, snapshot>>
  /\ UNCHANGED coreVars
  /\ UNCHANGED serviceVars
  /\ UNCHANGED args

\* merge_contacts: if not duplicates: return contacts
Core_NoDuplicates ==
  /\ pc = "core_found"
  /\ merged_groups = <<>>
  /\ result' = contacts
  /\ pc' = "core_done"
  /\ UNCHANGED <<heap, contacts, comparison_cache, decision, contact_index,
                 processed, merged_groups, merged_groups_map, current_group,
                 potential_matches, i, j, mapping_global, snapshot>>
  /\ UNCHANGED coreVars
  /\ UNCHANGED serviceVars
  /\ UNCHANGED args

\* merge_contacts: return self.merge_duplicate_groups(duplicates), entered
Core_BeginMerge ==
  /\ pc = "core_found"
  /\ merged_groups # <<>>
  /\ result' = <<>>
  /\ i' = 1
  /\ pc' = "core_merge"
  /\ UNCHANGED <<heap, contacts, comparison_cache, decision, contact_index,
                 processed, merged_groups, merged_groups_map, current_group,
                 potential_matches, j, mapping_global, snapshot>>
  /\ UNCHANGED coreVars
  /\ UNCHANGED serviceVars
  /\ UNCHANGED args

\* some member of the group carries an address
HasAddresses(hp, group) == \E k \in 1..Len(group) : hp[group[k]].addresses # <<>>

\* merge_duplicate_groups, one group without addresses: a single-item group
\* is appended as it is, a larger one is merged into a new Contact
Core_MergeGroup ==
  /\ pc = "core_merge"
  /\ i <= Len(merged_groups)
  /\ ~HasAddresses(heap, merged_groups[i])
  /\ IF Len(merged_groups[i]) = 1
       THEN /\ heap' = heap
            /\ result' = Append(result, merged_groups[i][1])
       ELSE /\ \E merged \in CoreMergedRecords(RecordsOf(heap, merged_groups[i])) :
                  heap' = heap @@ (NewRecordId(heap) :> merged)
            /\ result' = Append(result, NewRecordId(heap))
  /\ i' = i + 1
  /\ UNCHANGED <<contacts, pc, comparison_cache, decision, contact_index,
                 processed, merged_groups, merged_groups_map, current_group,
                 potential_matches, j, mapping_global, snapshot>>
  /\ UNCHANGED coreVars
  /\ UNCHANGED serviceVars
  /\ UNCHANGED args

\* merge_contact_group, line 75, for a group with addresses:
\* AddressProcessor has no method normalize_addresses, AttributeError
Core_MergeRaise ==
  /\ pc = "core_merge"
  /\ i <= Len(merged_groups)
  /\ Len(merged_groups[i]) > 1
  /\ HasAddresses(heap, merged_groups[i])
  /\ pc' = "core_raised"
  /\ UNCHANGED <<heap, contacts, comparison_cache, decision, contact_index,
                 processed, merged_groups, merged_groups_map, current_group,
                 potential_matches, i, j, mapping_global, result, snapshot>>
  /\ UNCHANGED coreVars
  /\ UNCHANGED serviceVars
  /\ UNCHANGED args

\* merge_duplicate_groups: return merged
Core_Return ==
  /\ pc = "core_merge"
  /\ i > Len(merged_groups)
  /\ pc' = "core_done"
  /\ UNCHANGED <<heap, contacts, comparison_cache, decision, contact_index,
                 processed, merged_groups, merged_groups_map, current_group,
                 potential_matches, i, j, mapping_global, result, snapshot>>
  /\ UNCHANGED coreVars
  /\ UNCHANGED serviceVars
  /\ UNCHANGED args

\* the caller drops the records of the finished call and calls
\* merge_contacts on the same ContactMerger with a new list; the new objects
\* get the addresses of the dropped ones (offset 0) or fresh ones, and
\* self.matcher.comparison_cache is what the earlier calls left
Core_NextRun ==
  /\ pc \in {"core_done", "core_raised"}
  /\ run < MaxRuns
  /\ \E b \in RerunBatches, offset \in {0, MaxId(heap)} :
        /\ heap' = [k \in { offset + n : n \in DOMAIN b } |-> CorePool[b[k - offset]]]
        /\ contacts' = [n \in DOMAIN b |-> offset + n]
  /\ run' = run + 1
  /\ pc' = "core_start"
  /\ decision' = FALSE
  /\ hit_from' = 0
  /\ contact_index' = Empty
  /\ processed' = {}
  /\ merged_groups' = <<>>
  /\ current_group' = <<>>
  /\ potential_matches' = <<>>
  /\ i' = 0
  /\ j' = 0
  /\ result' = <<>>
  /\ snapshot' = Empty
  /\ UNCHANGED <<comparison_cache, cache_run, merged_groups_map, mapping_global>>
  /\ UNCHANGED serviceVars
  /\ UNCHANGED args

NextCore ==
  \/ Core_Empty \/ Core_Start \/ Core_Skip \/ Core_Open \/ Core_Pass
  \/ Core_Compare \/ Core_Close \/ Core_Found \/ Core_NoDuplicates
  \/ Core_BeginMerge \/ Core_MergeGroup \/ Core_MergeRaise \/ Core_Return
  \/ Core_NextRun

SpecCore == InitCore /\ [][NextCore]_vars

(***************************************************************************)
(* Properties of ContactMerger.merge_contacts (SpecCore)                   *)
(***************************************************************************)
\* the groups of find_duplicates that hold contact c
GroupsHolding(c) ==
  { g \in 1..Len(merged_groups) : c \in Range(merged_groups[g]) }

\* C2: find_duplicates returns groups that partition the input, contacts
\* without duplicates as single-item groups, and merge_contacts returns an
\* output in which every input contact is represented exactly once, itself
\* or through the merged record of its group.
C2_EveryContactRepresented ==
  /\ pc \in {"core_found", "core_merge", "core_done"} =>
       \A k \in 1..Len(contacts) : Cardinality(GroupsHolding(contacts[k])) = 1
  /\ pc = "core_done" =>
       \A k \in 1..Len(contacts) :
         Cardinality(PlacesInResult(contacts[k]))
           + Cardinality({ g \in GroupsHolding(contacts[k]) :
                             Len(merged_groups[g]) > 1 }) = 1

\* C10: a decision returned by is_duplicate during a run never comes from a
\* cache entry written during an earlier run.
C10_NoEntryOfEarlierRun == hit_from \in {0, run}

(***************************************************************************)
(* The blocking step of merge_duplicates on names with mistyped keys       *)
(* (SpecTypo): the run of SpecRun on contacts whose names differ in one    *)
(* of the first three characters.                                          *)
(***************************************************************************)
S_JonSmith == <<"J","o","n"," ","S","m","i","t","h">>
S_Jo == <<"J","o">>

\* the pool a batch of mistyped names is drawn from
TypoPool ==
  << ("Full Name" :> PyStr(S_JohnSmith) @@ "Telephone" :> PyList(<<S_PhoneA>>)),
     ("Full Name" :> PyStr(S_JonSmith) @@ "Telephone" :> PyList(<<S_PhoneA>>)),
     ("Full Name" :> PyStr(S_JOHN_SMITH)),
     ("Name" :> PyStr(S_Jo)) >>

\* merge_duplicates(contacts) is about to start on a batch of the pool
InitTypo ==
  /\ \E b \in UNION { [1..n -> 1..Len(TypoPool)] : n \in 0..MaxContacts } :
        /\ heap = [k \in DOMAIN b |-> TypoPool[b[k]]]
        /\ contacts = [k \in DOMAIN b |-> k]
  /\ pc = "md_start"
  /\ comparison_cache = Empty
  /\ decision = FALSE
  /\ RunIdle
  /\ CoreIdle
  /\ ServiceIdle
  /\ args = <<>>

SpecTypo == InitTypo /\ [][NextRun]_vars

\* two 3-character bucket keys that differ by one mistyped character
KeysOneTypo(key1, key2) ==
  /\ Len(key1) = 3 /\ Len(key2) = 3
  /\ Cardinality({ p \in 1..3 : key1[p] # key2[p] }) = 1

\* C11: two contacts whose 3-character bucket keys differ by one mistyped
\* character are candidates of each other, and when is_duplicate accepts the
\* pair a run on the two of them merges them.
C11_TypoPairsCompared ==
  RunDone =>
    \A a, b \in Range(contacts) :
       (a # b /\ KeysOneTypo(BlockKey(heap[a]), BlockKey(heap[b]))) =>
          /\ Candidate(a, b) \/ Candidate(b, a)
          /\ (Len(contacts) = 2 /\ is_duplicate(heap, a, b, Empty))
               => SameCluster(a, b)

(***************************************************************************)
(* Determinism of merge_contact_group (SpecGroup)                          *)
(***************************************************************************)
\* the str stored under key, "" when the record has no such key
NameOf(record, key) == IF key \in DOMAIN record THEN record[key].v ELSE <<>>

\* C12: for a fixed cluster merge_contact_group yields the same merged first
\* name, last name and full name whatever order the sets first_names and
\* last_names are iterated in.
C12_MergedNameDeterministic ==
  GroupDone =>
    \A other \in MergedRecords(RecordsOf(heap, contacts)) :
       /\ NameOf(other, "FirstName") = NameOf(Merged, "FirstName")
       /\ NameOf(other, "LastName") = NameOf(Merged, "LastName")

(***************************************************************************)
(* The name of the contacts ContactMerger.merge_contacts returns (SpecCore) *)
(***************************************************************************)
\* the contact carries a full name, a first name or a last name
HasSomeName(contact) ==
  contact.full_name # <<>> \/ contact.first_name # <<>> \/ contact.last_name # <<>>

\* the members of the cluster the k-th returned contact stands for
ClusterOfResult(k) ==
  IF merged_groups = <<>> THEN {result[k]} ELSE Range(merged_groups[k])

\* C13: every contact merge_contacts returns has a non-empty full_name
\* whenever a member of its cluster has a non-empty full_name, first_name or
\* last_name.
C13_FullNameNeverEmpty ==
  pc = "core_done" =>
    \A k \in 1..Len(result) :
       (\E c \in ClusterOfResult(k) : HasSomeName(heap[c]))
          => heap[result[k]].full_name # <<>>


(***************************************************************************)
(* process_address.py: normalize_address over a list of addresses, with    *)
(* the validation service as an environment that answers every posted      *)
(* request in one of the ways of Responses.                                *)
(***************************************************************************)
MaxAddresses == 2

S_Key           == <<"k">>
S_MainStRaw     == <<"1"," ","M","a","i","n"," "," ","S","t",".",",",","," ","B","e","r","l","i","n",",">>
S_MainStBerlin  == <<"1"," ","M","a","i","n"," ","S","t",","," ","B","e","r","l","i","n">>
S_MainStreet    == <<"M","a","i","n"," ","S","t","r","e","e","t">>
S_One           == <<"1">>
S_Blank         == <<" "," ">>
S_PostCode      == <<"1","0","1","1","5">>
S_Germany       == <<"G","e","r","m","a","n","y">>
S_Atlantis      == <<"A","t","l","a","n","t","i","s">>
S_DE            == <<"D","E">>

PyDict(d) == [t |-> "dict", v |-> d]

RECURSIVE ReplaceNewlines(_)
\* re.sub(r"\n", ", ", address)
ReplaceNewlines(s) ==
  IF s = <<>> THEN <<>>
  ELSE (IF Head(s) = "\n" THEN CommaSpace ELSE <<Head(s)>>) \o ReplaceNewlines(Tail(s))

RECURSIVE CollapseCommas(_)
\* re.sub(r",\s*,", ",", address)
CollapseCommas(s) ==
  IF s = <<>> THEN <<>>
  ELSE IF Head(s) = "," /\ LStrip(Tail(s)) # <<>> /\ Head(LStrip(Tail(s))) = ","
    THEN <<",">> \o CollapseCommas(Tail(LStrip(Tail(s))))
  ELSE <<Head(s)>> \o CollapseCommas(Tail(s))

\* re.sub(r",\s*$", "", address)
DropTrailingComma(s) ==
  IF RStrip(s) # <<>> /\ RStrip(s)[Len(RStrip(s))] = ","
    THEN SubSeq(s, 1, Len(RStrip(s)) - 1)
    ELSE s

\* re.sub(r"[^\w\s,]", "", address)
DropPunctuation(s) ==
  LET Kept(c) == IsWordChar(c) \/ IsSpace(c) \/ c = ","
  IN SelectSeq(s, Kept)

\* process_address.clean_address_string
clean_address_string(address) ==
  DropPunctuation(DropTrailingComma(CollapseCommas(ReplaceNewlines(
    Strip(CollapseWs(address))))))

\* process_address.string_to_address_dict
string_to_address_dict(address_str) ==
  "vcard" :> ("street" :> address_str @@ "locality" :> <<>>
                @@ "postal_code" :> <<>> @@ "country" :> <<>>
                @@ "label" :> address_str)
    @@ "OriginalAddress" :> address_str
    @@ "_AddressValidation" :> ("verdict" :> "UNPROCESSED")
    @@ "isBusiness" :> FALSE
    @@ "addressComplete" :> FALSE

\* filter(None, parts)
NonEmptyOf(parts) == LET Filled(p) == p # <<>> IN SelectSeq(parts, Filled)

\* process_address.format_vcard_address; components holds str fields under
\* "fields", the two flags and the verdict
format_vcard_address(components) ==
  "vcard" :> ("po_box" :> Get(components.fields, "po_box", <<>>)
                @@ "extended" :> Get(components.fields, "extended", <<>>)
                @@ "street" :> Get(components.fields, "street", <<>>)
                @@ "locality" :> Get(components.fields, "city", <<>>)
                @@ "region" :> Get(components.fields, "region", <<>>)
                @@ "postal_code" :> Get(components.fields, "postal_code", <<>>)
                @@ "country" :> Get(components.fields, "country", <<>>)
                @@ "label" :> JoinWith(CommaSpace, NonEmptyOf(
                     << Get(components.fields, "street", <<>>),
                        Get(components.fields, "city", <<>>),
                        Get(components.fields, "region", <<>>),
                        Get(components.fields, "postal_code", <<>>),
                        Get(components.fields, "country", <<>>) >>)))
    @@ "metadata" :> ("isBusiness" :> components.isBusiness
                        @@ "addressComplete" :> components.addressComplete)
    @@ "_AddressValidation" :> ("verdict" :> components.verdict)
    @@ (IF "OriginalAddress" \in DOMAIN components.fields
          THEN "OriginalAddress" :> components.fields["OriginalAddress"]
          ELSE Empty)

\* format_vcard_address({})
EmptyComponents ==
  [fields |-> Empty, isBusiness |-> FALSE, addressComplete |-> FALSE,
   verdict |-> "UNPROCESSED"]

\* one entry of result.address.addressComponents in a response; isDict is
\* false for an entry that is no JSON object, nameIsDict for a componentName
\* that is no JSON object
Component(type, text) ==
  [isDict |-> TRUE, componentType |-> type, nameIsDict |-> TRUE, text |-> text]

\* the ways the service answers a posted request: requests.post raises, a
\* status that is not 2xx, a body that is no JSON, a JSON body without
\* result.address, and 2xx bodies with result.address
Responses ==
  { [kind |-> "exception", components |-> <<>>, verdict |-> "UNKNOWN",
     addressComplete |-> FALSE, business |-> FALSE],
    [kind |-> "not_ok", components |-> <<>>, verdict |-> "UNKNOWN",
     addressComplete |-> FALSE, business |-> FALSE],
    [kind |-> "bad_json", components |-> <<>>, verdict |-> "UNKNOWN",
     addressComplete |-> FALSE, business |-> FALSE],
    [kind |-> "no_result", components |-> <<>>, verdict |-> "UNKNOWN",
     addressComplete |-> FALSE, business |-> FALSE],
    [kind |-> "no_components", components |-> <<>>, verdict |-> "OTHER",
     addressComplete |-> FALSE, business |-> FALSE],
    [kind |-> "bad_entry",
     components |-> << [Component("route", S_MainStreet) EXCEPT !.isDict = FALSE] >>,
     verdict |-> "PREMISE", addressComplete |-> TRUE, business |-> FALSE],
    [kind |-> "bad_component",
     components |-> << Component("locality", S_Berlin),
                       [Component("route", S_MainStreet) EXCEPT !.nameIsDict = FALSE] >>,
     verdict |-> "PREMISE", addressComplete |-> TRUE, business |-> FALSE],
    [kind |-> "ok",
     components |-> << Component("route", S_MainStreet),
                       Component("street_number", S_One),
                       Component("subpremise", S_Blank),
                       Component("locality", S_Berlin),
                       Component("postal_code", S_PostCode),
                       Component("country", S_Germany) >>,
     verdict |-> "PREMISE", addressComplete |-> TRUE, business |-> FALSE],
    [kind |-> "ok_partial",
     components |-> << Component("locality", S_Berlin) >>,
     verdict |-> "LOCALITY", addressComplete |-> FALSE, business |-> TRUE] }

\* the answers after which validate_address has nothing to return
FailureKinds == {"exception", "not_ok", "bad_json", "no_result", "bad_entry"}

\* the countries pycountry knows, as far as the sample addresses go
Countries == { [name |-> S_Germany, alpha_2 |-> S_DE] }

\* pycountry.countries.lookup(country).alpha_2, <<>> after a LookupError or
\* without a country
RegionCode(country) ==
  IF \E c \in Countries : Lower(country) \in {Lower(c.name), Lower(c.alpha_2)}
    THEN (CHOOSE c \in Countries :
            Lower(country) \in {Lower(c.name), Lower(c.alpha_2)}).alpha_2
    ELSE <<>>

\* the request_body of validate_address; regionCode <<>> when left out
RequestBody(address, country) ==
  [addressLines |-> <<address>>, regionCode |-> RegionCode(country)]

\* validate_address line 217: nothing is posted without address or key
Posts(address, key) == address # <<>> /\ key # <<>>

\* what validate_address returns
NoValidation ==
  [isNone |-> TRUE, addressComponents |-> <<>>, verdict |-> "UNKNOWN",
   addressComplete |-> FALSE, isBusiness |-> FALSE]

\* validate_address once the service has answered with response
validate_address(response) ==
  IF response.kind \in {"exception", "not_ok", "bad_json", "no_result"}
    THEN NoValidation
  ELSE IF \E k \in DOMAIN response.components : ~response.components[k].isDict
    THEN NoValidation  \* line 282 raises inside the try block
  ELSE [isNone |-> FALSE, addressComponents |-> response.components,
        verdict |-> response.verdict,
        addressComplete |-> response.addressComplete,
        isBusiness |-> response.business]

\* the address of normalize_address at line 125
PreEnrichment(address, mode) ==
  IF address.t = "str"
    THEN string_to_address_dict(
           IF mode \in {"CLEAN_ONLY", "FULL"} THEN clean_address_string(address.v)
           ELSE address.v)
    ELSE address.v

\* original_address of normalize_address
OriginalOf(address) ==
  IF address.t = "str" THEN address.v
  ELSE Get(address.v, "OriginalAddress", Get(Get(address.v, "vcard", Empty), "street", <<>>))

\* raw_address of normalize_address
RawAddress(dict) ==
  JoinWith(CommaSpace, NonEmptyOf(
    << Get(dict["vcard"], "street", <<>>), Get(dict["vcard"], "locality", <<>>),
       Get(dict["vcard"], "postal_code", <<>>), Get(dict["vcard"], "country", <<>>) >>))

\* lines 181-190: the field a component type fills
ComponentField(type) ==
  CASE type = "route" -> "street"
    [] type = "street_number" -> "house_number"
    [] type = "locality" -> "city"
    [] type = "postal_code" -> "postal_code"
    [] type = "country" -> "country"
    [] OTHER -> "ignored"

RECURSIVE ApplyComponents(_, _)
\* lines 175-190 for components whose componentName is an object
ApplyComponents(components, fields) ==
  IF components = <<>> THEN fields
  ELSE ApplyComponents(Tail(components),
         IF Strip(Head(components).text) = <<>>
              \/ ComponentField(Head(components).componentType) = "ignored"
           THEN fields
           ELSE [fields EXCEPT ![ComponentField(Head(components).componentType)] =
                   Strip(Head(components).text)])

\* lines 192-194
CombineStreet(fields) ==
  IF fields["street"] # <<>> /\ fields["house_number"] # <<>>
    THEN [fields EXCEPT !["street"] = fields["street"] \o Space \o fields["house_number"]]
    ELSE fields

\* lines 161-203
Enriched(original, validation) ==
  [ format_vcard_address(
      [fields |-> CombineStreet(ApplyComponents(validation.addressComponents,
                    "street" :> <<>> @@ "house_number" :> <<>> @@ "city" :> <<>>
                      @@ "postal_code" :> <<>> @@ "country" :> <<>>)),
       isBusiness |-> validation.isBusiness,
       addressComplete |-> validation.addressComplete,
       verdict |-> validation.verdict])
    @@ "OriginalAddress" :> original
    EXCEPT !["_AddressValidation"] = "verdict" :> validation.verdict ]

\* line 177 raises AttributeError for a componentName that is no object
RaisesOn(validation) ==
  \E k \in DOMAIN validation.addressComponents :
     ~validation.addressComponents[k].nameIsDict

\* normalize_address from line 156 on, if it marked what it could not enrich
normalize_address_marking_failed(address, mode, validation) ==
  IF validation.isNone \/ validation.addressComponents = <<>>
    THEN [PreEnrichment(address, mode)
            EXCEPT !["_AddressValidation"] = "verdict" :> "FAILED"]
    ELSE Enriched(OriginalOf(address), validation)

\* normalize_address from line 156 on
normalize_address(address, mode, validation) ==
  IF validation.isNone \/ validation.addressComponents = <<>>
    THEN PreEnrichment(address, mode)
    ELSE Enriched(OriginalOf(address), validation)

\* the locals and arguments the address functions leave alone
addressFrame ==
  <<heap, contacts, comparison_cache, decision, contact_index, processed,
    merged_groups, merged_groups_map, current_group, potential_matches, j,
    mapping_global, snapshot, run, cache_run, hit_from, addresses,
    validation_mode, api_key, args>>

\* the addresses of the sample batches: free text and dicts
AddressPool ==
  << PyStr(S_MainStRaw), PyStr(S_MainStBerlin), PyStr(<<>>),
     PyDict(string_to_address_dict(S_MainStBerlin)),
     PyDict("vcard" :> ("street" :> S_MainSt @@ "locality" :> S_Berlin
                          @@ "postal_code" :> <<>> @@ "country" :> S_Germany
                          @@ "label" :> S_MainStBerlin)
              @@ "_AddressValidation" :> ("verdict" :> "PARSED")),
     PyDict("vcard" :> ("street" :> <<>> @@ "locality" :> <<>>
                          @@ "postal_code" :> <<>> @@ "country" :> S_Atlantis
                          @@ "label" :> <<>>)
              @@ "OriginalAddress" :> S_Atlantis
              @@ "_AddressValidation" :> ("verdict" :> "UNPROCESSED")) >>

AddressBatches ==
  UNION { [1..n -> 1..Len(AddressPool)] : n \in 1..MaxAddresses }

InitAddress ==
  /\ \E b \in AddressBatches : addresses = [k \in DOMAIN b |-> AddressPool[b[k]]]
  /\ validation_mode \in {"NONE", "CLEAN_ONLY", "FULL"}
  /\ api_key \in {<<>>, S_Key}
  /\ requests = <<>>
  /\ outcomes = <<>>
  /\ args = <<>>
  /\ heap = Empty
  /\ contacts = <<>>
  /\ \/ pc = "na_start"
     \/ pc = "ma_start" /\ \A k \in DOMAIN addresses : addresses[k].t = "dict"
  /\ comparison_cache = Empty
  /\ decision = FALSE
  /\ RunIdle
  /\ CoreIdle

\* normalize_address(list): lines 107-108, the comprehension begins
NA_Start ==
  /\ pc = "na_start"
  /\ pc' = "na_loop"
  /\ i' = 1
  /\ UNCHANGED <<result, requests, outcomes>>
  /\ UNCHANGED addressFrame

\* lines 102-104: an empty str or dict
NA_Blank ==
  /\ pc = "na_loop"
  /\ i <= Len(addresses)
  /\ addresses[i].v = <<>>
  /\ result' = Append(result, format_vcard_address(EmptyComponents))
  /\ outcomes' = Append(outcomes, "blank")
  /\ i' = i + 1
  /\ UNCHANGED <<pc, requests>>
  /\ UNCHANGED addressFrame

\* lines 125-132: modes NONE and CLEAN_ONLY return before validate_address
NA_Unvalidated ==
  /\ pc = "na_loop"
  /\ i <= Len(addresses)
  /\ addresses[i].v # <<>>
  /\ validation_mode \in {"NONE", "CLEAN_ONLY"}
  /\ result' = Append(result, PreEnrichment(addresses[i], validation_mode))
  /\ outcomes' = Append(outcomes, "not_asked")
  /\ i' = i + 1
  /\ UNCHANGED <<pc, requests>>
  /\ UNCHANGED addressFrame

\* mode FULL, validate_address returns None at line 219
NA_NoRequest ==
  /\ pc = "na_loop"
  /\ i <= Len(addresses)
  /\ addresses[i].v # <<>>
  /\ validation_mode = "FULL"
  /\ ~Posts(RawAddress(PreEnrichment(addresses[i], validation_mode)), api_key)
  /\ result' = Append(result, normalize_address(addresses[i], validation_mode, NoValidation))
  /\ outcomes' = Append(outcomes, IF api_key = <<>> THEN "no_key" ELSE "no_text")
  /\ i' = i + 1
  /\ UNCHANGED <<pc, requests>>
  /\ UNCHANGED addressFrame

\* mode FULL, validate_address posts the request and the service answers
NA_Request ==
  /\ pc = "na_loop"
  /\ i <= Len(addresses)
  /\ addresses[i].v # <<>>
  /\ validation_mode = "FULL"
  /\ Posts(RawAddress(PreEnrichment(addresses[i], validation_mode)), api_key)
  /\ requests' = Append(requests,
       RequestBody(RawAddress(PreEnrichment(addresses[i], validation_mode)),
                   Get(PreEnrichment(addresses[i], validation_mode)["vcard"],
                       "country", <<>>)))
  /\ \E response \in Responses :
       /\ outcomes' = Append(outcomes, response.kind)
       /\ IF RaisesOn(validate_address(response))
            THEN /\ pc' = "na_raised"
                 /\ UNCHANGED <<result, i>>
            ELSE /\ result' = Append(result,
                      normalize_address(addresses[i], validation_mode,
                                        validate_address(response)))
                 /\ i' = i + 1
                 /\ pc' = pc
  /\ UNCHANGED addressFrame

\* the comprehension is through: the list is returned
NA_Return ==
  /\ pc = "na_loop"
  /\ i > Len(addresses)
  /\ pc' = "na_done"
  /\ UNCHANGED <<result, i, requests, outcomes>>
  /\ UNCHANGED addressFrame

(***************************************************************************)
(* src/processors/address.py: AddressProcessor.merge_addresses on the      *)
(* processor's list of address dicts; validation_mode and api_key are the  *)
(* processor's attributes.                                                 *)
(***************************************************************************)
\* AddressProcessor._clean_address_string
AddressProcessor_clean_address_string(address) ==
  IF address = <<>> THEN <<>>
  ELSE DropTrailingComma(CollapseCommas(ReplaceNewlines(Strip(CollapseWs(address)))))

\* address_str of AddressProcessor.normalize_address, lines 80-91
AddressStr(dict, mode) ==
  Only({ IF mode \in {"CLEAN_ONLY", "FULL"}
           THEN AddressProcessor_clean_address_string(s) ELSE s :
         s \in { IF Get(Get(dict, "vcard", Empty), "label", <<>>) # <<>>
                   THEN dict["vcard"]["label"]
                   ELSE JoinWith(CommaSpace, NonEmptyOf(
                          << Get(Get(dict, "vcard", Empty), "street", <<>>),
                             Get(Get(dict, "vcard", Empty), "locality", <<>>),
                             Get(Get(dict, "vcard", Empty), "postal_code", <<>>),
                             Get(Get(dict, "vcard", Empty), "country", <<>>) >>)) } })

\* re.search(r',\s*([^,]+)$', address): the text after the last comma
CountryPattern(address) ==
  IF ~HasChar(address, ",") THEN <<>>
  ELSE LStrip(SplitOn(address, ",")[Len(SplitOn(address, ","))])

\* AddressProcessor._validate_address once the service has answered
AddressProcessor_validate_address(response) ==
  IF response.kind \in {"exception", "not_ok", "bad_json", "no_result"}
    THEN NoValidation
    ELSE [isNone |-> FALSE, addressComponents |-> response.components,
          verdict |-> response.verdict,
          addressComplete |-> response.addressComplete,
          isBusiness |-> response.business]

\* lines 219-220 raise AttributeError for an entry or a componentName that is
\* no object
FormatRaisesOn(validation) ==
  \E k \in DOMAIN validation.addressComponents :
     \/ ~validation.addressComponents[k].isDict
     \/ ~validation.addressComponents[k].nameIsDict

RECURSIVE FormatComponents(_, _)
\* AddressProcessor._format_validated_address, lines 218-231
FormatComponents(components, fields) ==
  IF components = <<>> THEN fields
  ELSE FormatComponents(Tail(components),
         IF Head(components).componentType = "street_number"
           THEN [fields EXCEPT !["street"] =
                   Strip(Head(components).text) \o Space \o fields["street"]]
         ELSE IF ComponentField(Head(components).componentType) = "ignored"
           THEN fields
         ELSE [fields EXCEPT ![ComponentField(Head(components).componentType)] =
                 Strip(Head(components).text)])

\* AddressProcessor._format_vcard_address: OriginalAddress defaults to the label
AddressProcessor_format_vcard_address(components) ==
  Only({ f @@ "OriginalAddress" :> f["vcard"]["label"] :
         f \in { format_vcard_address(components) } })

\* AddressProcessor.normalize_address from line 96 on
AddressProcessor_normalize_address(dict, address_str, validation) ==
  IF ~validation.isNone
    THEN AddressProcessor_format_vcard_address(
           [fields |-> FormatComponents(validation.addressComponents,
                         "street" :> <<>> @@ "city" :> <<>> @@ "postal_code" :> <<>>
                           @@ "country" :> <<>> @@ "OriginalAddress" :> address_str),
            isBusiness |-> validation.isBusiness,
            addressComplete |-> validation.addressComplete,
            verdict |-> validation.verdict])
    ELSE AddressProcessor_format_vcard_address(
           [fields |-> "street" :> Get(Get(dict, "vcard", Empty), "street", <<>>)
                         @@ "city" :> Get(Get(dict, "vcard", Empty), "locality", <<>>)
                         @@ "postal_code" :> Get(Get(dict, "vcard", Empty), "postal_code", <<>>)
                         @@ "country" :> Get(Get(dict, "vcard", Empty), "country", <<>>)
                         @@ "OriginalAddress" :> address_str,
            isBusiness |-> FALSE, addressComplete |-> FALSE,
            verdict |-> "UNPROCESSED"])

RECURSIVE UniqueByLabel(_, _)
\* merge_addresses, lines 60-67
UniqueByLabel(normalized, seen_labels) ==
  IF normalized = <<>> THEN <<>>
  ELSE IF Head(normalized)["vcard"]["label"] \in seen_labels
    THEN UniqueByLabel(Tail(normalized), seen_labels)
  ELSE <<Head(normalized)>>
         \o UniqueByLabel(Tail(normalized),
                          seen_labels \cup {Head(normalized)["vcard"]["label"]})

\* merge_addresses: the comprehension of lines 54-57 begins
MA_Start ==
  /\ pc = "ma_start"
  /\ pc' = "ma_loop"
  /\ i' = 1
  /\ UNCHANGED <<result, requests, outcomes>>
  /\ UNCHANGED addressFrame

\* normalize_address(addr, FULL) that posts nothing: an empty dict, no key,
\* or no text to validate
MA_NoRequest ==
  /\ pc = "ma_loop"
  /\ i <= Len(addresses)
  /\ \/ addresses[i].v = Empty
     \/ ~Posts(AddressStr(addresses[i].v, "FULL"), api_key)
  /\ result' = Append(result,
       IF addresses[i].v = Empty
         THEN AddressProcessor_format_vcard_address(EmptyComponents)
         ELSE AddressProcessor_normalize_address(addresses[i].v,
                AddressStr(addresses[i].v, "FULL"), NoValidation))
  /\ outcomes' = Append(outcomes,
       IF addresses[i].v = Empty THEN "blank"
       ELSE IF api_key = <<>> THEN "no_key" ELSE "no_text")
  /\ i' = i + 1
  /\ UNCHANGED <<pc, requests>>
  /\ UNCHANGED addressFrame

\* normalize_address(addr, FULL) that posts the request: line 55 passes FULL
\* whatever the processor's validation_mode is
MA_Request ==
  /\ pc = "ma_loop"
  /\ i <= Len(addresses)
  /\ addresses[i].v # Empty
  /\ Posts(AddressStr(addresses[i].v, "FULL"), api_key)
  /\ requests' = Append(requests,
       RequestBody(AddressStr(addresses[i].v, "FULL"),
                   CountryPattern(AddressStr(addresses[i].v, "FULL"))))
  /\ \E response \in Responses :
       /\ outcomes' = Append(outcomes, response.kind)
       /\ IF FormatRaisesOn(AddressProcessor_validate_address(response))
            THEN /\ pc' = "ma_raised"
                 /\ UNCHANGED <<result, i>>
            ELSE /\ result' = Append(result,
                      AddressProcessor_normalize_address(addresses[i].v,
                        AddressStr(addresses[i].v, "FULL"),
                        AddressProcessor_validate_address(response)))
                 /\ i' = i + 1
                 /\ pc' = pc
  /\ UNCHANGED addressFrame

\* merge_addresses, lines 59-69: the first address of every label is kept
MA_Return ==
  /\ pc = "ma_loop"
  /\ i > Len(addresses)
  /\ result' = UniqueByLabel(result, {})
  /\ pc' = "ma_done"
  /\ UNCHANGED <<i, requests, outcomes>>
  /\ UNCHANGED addressFrame

NextAddress ==
  \/ NA_Start \/ NA_Blank \/ NA_Unvalidated \/ NA_NoRequest \/ NA_Request
  \/ NA_Return
  \/ MA_Start \/ MA_NoRequest \/ MA_Request \/ MA_Return

SpecAddress == InitAddress /\ [][NextAddress]_vars


\* the verdict an address carries, "UNPROCESSED" when it carries none
VerdictOf(dict) ==
  Get(Get(dict, "_AddressValidation", Empty), "verdict", "UNPROCESSED")

\* normalize_address is at work and the service call for its k-th address
\* came to nothing: no key, a network
\* exception, a status that is not 2xx, or a body validate_address rejects
CallFailed(k) ==
  /\ pc \in {"na_loop", "na_raised", "na_done"}
  /\ validation_mode = "FULL"
  /\ outcomes[k] \in FailureKinds \cup {"no_key"}

C15_NoRequestUnlessFull ==
  validation_mode \in {"NONE", "CLEAN_ONLY"} => requests = <<>>


\* the label an address dict carries
LabelOf(address) == Get(Get(address, "vcard", Empty), "label", <<>>)

RECURSIVE FirstOfEachLabel(_, _)
\* a list of addresses with only the first occurrence of every label
FirstOfEachLabel(list, seen) ==
  IF list = <<>> THEN <<>>
  ELSE IF LabelOf(Head(list)) \in seen THEN FirstOfEachLabel(Tail(list), seen)
  ELSE <<Head(list)>> \o FirstOfEachLabel(Tail(list), seen \cup {LabelOf(Head(list))})

\* C16 (as stated): merge_contact_group on a cluster whose members carry
\* addresses completes, and the merged contact's address list is the
\* concatenation of the members' lists with only the first occurrence of
\* every label kept.
C16_AddressesMergedByLabel ==
  /\ pc # "core_raised"
  /\ pc = "core_done" =>
       \A k \in 1..Len(result) :
          (merged_groups # <<>> /\ Len(merged_groups[k]) > 1) =>
            heap[result[k]].addresses =
              FirstOfEachLabel(Extended(RecordsOf(heap, merged_groups[k]), "addresses"), {})


(***************************************************************************)
(* process_name.merge_names called on two names, as tests.py calls it      *)
(***************************************************************************)
S_JohnnySmith == <<"J","o","h","n","n","y"," ","S","m","i","t","h">>
S_AnnMarianne == <<"A","n","n"," ","M","a","r","i","a","n","n","e">>
S_AnneSmith == <<"A","n","n","e"," ","S","m","i","t","h">>
S_JSmith == <<"J"," ","S","m","i","t","h">>
S_SmithCommaJohn == <<"S","m","i","t","h",","," ","J","o","h","n">>
S_JoanneLee == <<"J","o","a","n","n","e"," ","L","e","e">>
S_AnnLee == <<"A","n","n"," ","L","e","e">>
S_AlGreen == <<"A","l"," ","G","r","e","e","n">>
S_NealAlbert == <<"N","e","a","l"," ","A","l","b","e","r","t">>
S_JonSonJohnson == <<"J","o","n"," ","S","o","n"," ","J","o","h","n","s","o","n">>
S_JohnJohnson == <<"J","o","h","n"," ","J","o","h","n","s","o","n">>

\* the names of the sample calls: nickname pairs in both orders, a pair with
\* a third related part, an initial, a title, upper case, "Last, First",
\* and a pair whose parts replace one another in turn
NamePool ==
  << S_JohnSmith, S_JohnnySmith, S_JOHN_SMITH, S_DrJohnSmith, S_SmithCommaJohn,
     S_JSmith, S_AnnMarianne, S_AnneSmith, S_AnnLee, S_JoanneLee, S_AlGreen,
     S_NealAlbert, S_JonSonJohnson, S_JohnJohnson >>

\* what a call of a function on args leaves alone
callFrame ==
  <<heap, contacts, comparison_cache, decision, contact_index, processed,
    merged_groups, merged_groups_map, current_group, potential_matches, i, j,
    mapping_global, snapshot, run, cache_run, hit_from, addresses,
    validation_mode, api_key, requests, outcomes, args>>

InitNames ==
  /\ \E a \in 1..Len(NamePool), b \in 1..Len(NamePool) :
        args = <<NamePool[a], NamePool[b]>>
  /\ pc = "mn_ready"
  /\ heap = Empty
  /\ contacts = <<>>
  /\ comparison_cache = Empty
  /\ decision = FALSE
  /\ RunIdle
  /\ CoreIdle
  /\ ServiceIdle

\* result = merge_names(name1, name2)
MN_Call ==
  /\ pc = "mn_ready"
  /\ result' = merge_names(args[1], args[2])
  /\ pc' = "mn_done"
  /\ UNCHANGED callFrame

\* result = merge_names(name2, name1)
MN_CallSwapped ==
  /\ pc = "mn_ready"
  /\ result' = merge_names(args[2], args[1])
  /\ pc' = "mn_done_swapped"
  /\ UNCHANGED callFrame

NextNames == MN_Call \/ MN_CallSwapped

SpecNames == InitNames /\ [][NextNames]_vars

\* the parts of a name that merge_names hands to add_part
AddedParts(name) ==
  { p \in Range(normalize_name(normalize_name_order(name))) :
      RStripChar(Upper(p), ".") \notin NAME_PREFIXES \cup NAME_SUFFIXES }

\* an ordinary part: two letters or more, no title
Ordinary(part) ==
  /\ Len(part) >= 2
  /\ \A k \in 1..Len(part) : part[k] \in LowerLetters \cup UpperLetters
  /\ Lower(part) \notin { <<"d","r">>, <<"m","d">>, <<"p","h","d">> }

\* short is a proper prefix or substring of long, case aside
ShortFormOf(short, long) ==
  Len(short) < Len(long) /\ IsSubstring(Lower(short), Lower(long))

\* the pairs <<short, long>> of ordinary parts, one from each input
NicknamePairs ==
  { pair \in (AddedParts(args[1]) \X AddedParts(args[2]))
               \cup (AddedParts(args[2]) \X AddedParts(args[1])) :
      Ordinary(pair[1]) /\ Ordinary(pair[2]) /\ ShortFormOf(pair[1], pair[2]) }

\* the parts of the returned name, in lower case
ReturnedParts == { Lower(p) : p \in Range(Split(result)) }

\* no further part of either input is a variant of short or of long
OnlyVariants(short, long) ==
  \A p \in AddedParts(args[1]) \cup AddedParts(args[2]) :
     Lower(p) \notin {Lower(short), Lower(long)} =>
       /\ ~is_name_variant(p, short) /\ ~is_name_variant(short, p)
       /\ ~is_name_variant(p, long) /\ ~is_name_variant(long, p)

\* C17 (as the code has it): when an ordinary part of one input is a proper
\* prefix or substring of an ordinary part of the other, and no further part
\* of either input is a name variant of one of the two, the merged name
\* holds the longer part and not the shorter, in whichever input each
\* occurs.
C17_LonePairKeepsLonger ==
  pc \in {"mn_done", "mn_done_swapped"} =>
    \A pair \in NicknamePairs :
       OnlyVariants(pair[1], pair[2]) =>
         /\ Lower(pair[2]) \in ReturnedParts
         /\ Lower(pair[1]) \notin ReturnedParts

\* merge_names('John Smith', 'Johnny Smith') has returned 'Johnny Smith'
C17_JohnnyKept ==
  /\ pc = "mn_done"
  /\ args = <<S_JohnSmith, S_JohnnySmith>>
  /\ <<S_John, <<"J","o","h","n","n","y">> >> \in NicknamePairs
  /\ OnlyVariants(S_John, <<"J","o","h","n","n","y">>)
  /\ result = S_JohnnySmith

\* C17 (as stated): whenever an ordinary part of one input is a proper
\* prefix or substring of an ordinary part of the other, the merged name
\* holds the longer part and not the shorter.
C17_AlwaysKeepsLonger ==
  pc \in {"mn_done", "mn_done_swapped"} =>
    \A pair \in NicknamePairs :
       /\ Lower(pair[2]) \in ReturnedParts
       /\ Lower(pair[1]) \notin ReturnedParts


(***************************************************************************)
(* process_phone.are_phones_matching on two phone strings                  *)
(***************************************************************************)
S_PhoneUS == <<"+","1"," ","4","7","9"," ","2","1","2"," ","3","4","5","6">>
S_PhoneNO == <<"+","4","7"," ","9","2"," ","1","2"," ","3","4"," ","5","6">>
S_PhoneTollFree == <<"+","1","-","8","0","0","-","5","5","5","-","5","5","5","5">>
S_PhoneTollFree2 == <<"+","1","-","8","0","0","-","5","5","5","-","5","5","5","6">>
S_PhoneUK == <<"+","4","4"," ","8","0","0"," ","5","5","5"," ","5","5","5","5">>
S_PhoneNoPlus == <<"(","8","0","0",")"," ","5","5","5","-","5","5","5","5">>
S_PhoneWords == <<"c","a","l","l"," ","m","e">>

\* the keys of config.COUNTRY_PREFIXES
COUNTRY_PREFIXES ==
  { <<"1">>, <<"3","0">>, <<"3","1">>, <<"3","2">>, <<"3","3">>, <<"3","4">>,
    <<"3","6">>, <<"3","9">>, <<"4","0">>, <<"4","1">>, <<"4","3">>,
    <<"4","4">>, <<"4","5">>, <<"4","6">>, <<"4","7">>, <<"4","8">>,
    <<"4","9">>, <<"8","1">>, <<"8","2">>, <<"8","4">>, <<"8","6">>,
    <<"8","5","2">>, <<"8","5","5">>, <<"8","6","1">>, <<"8","8","6">>,
    <<"9","1">>, <<"9","2">>, <<"9","5">>, <<"9","6","6">>, <<"6","1">>,
    <<"6","4">>, <<"5","1">>, <<"5","2">>, <<"5","4">>, <<"5","5">>,
    <<"5","6">>, <<"5","7">>, <<"5","8">>, <<"2","0">>, <<"2","1","2">>,
    <<"2","3","4">>, <<"2","7">>, <<"9","7","1">>, <<"9","7","2">>,
    <<"9","7","4">> }

RECURSIVE LStripChar(_, _)
\* str.lstrip(c)
LStripChar(s, c) == IF s # <<>> /\ Head(s) = c THEN LStripChar(Tail(s), c) ELSE s

\* lines 80-82, 88-90: the number without the prefix and without a leading 0
LocalOf(bare, prefix) ==
  IF Len(bare) > Len(prefix) /\ bare[Len(prefix) + 1] = "0"
    THEN SubSeq(bare, Len(prefix) + 2, Len(bare))
    ELSE SubSeq(bare, Len(prefix) + 1, Len(bare))

\* lines 79-86 for one prefix: bare carries the prefix, other is compared
\* with the rest
PrefixMatches(bare, other, prefix) ==
  /\ StartsWith(bare, prefix)
  /\ IF other # <<>> /\ Head(other) = "0"
       THEN LocalOf(bare, prefix) = Tail(other)
       ELSE LocalOf(bare, prefix) = other

\* are_phones_matching from line 57 on, for the normalized numbers n1, n2
NormalizedMatch(n1, n2, n1_bare, n2_bare) ==
  \/ n1 = n2
  \/ n1_bare = n2_bare
  \/ /\ ~StartsWith(n1, <<"+">>) /\ ~StartsWith(n2, <<"+">>)
     /\ Split(n1_bare) = Split(n2_bare)
  \/ \E prefix \in COUNTRY_PREFIXES :
        \/ PrefixMatches(n1_bare, n2_bare, prefix)
        \/ PrefixMatches(n2_bare, n1_bare, prefix)

\* are_phones_matching if the check of lines 53-54 were missing
are_phones_matching_unchecked(phone1, phone2) ==
  IF phone1 \in {<<>>, None} \/ phone2 \in {<<>>, None} THEN FALSE
  ELSE NormalizedMatch(normalize_phone(phone1), normalize_phone(phone2),
                       LStripChar(normalize_phone(phone1), "+"),
                       LStripChar(normalize_phone(phone2), "+"))

\* process_phone.are_phones_matching; None as an argument is Python's None
are_phones_matching(phone1, phone2) ==
  IF phone1 \in {<<>>, None} \/ phone2 \in {<<>>, None} THEN FALSE
  ELSE IF normalize_phone(phone1) \in {<<>>, None}
            \/ normalize_phone(phone2) \in {<<>>, None} THEN FALSE
  ELSE NormalizedMatch(normalize_phone(phone1), normalize_phone(phone2),
                       LStripChar(normalize_phone(phone1), "+"),
                       LStripChar(normalize_phone(phone2), "+"))

\* the phone arguments of the sample calls
PhonePool ==
  << <<>>, None, S_PhoneA, S_PhoneA2, S_PhoneB, S_PhoneBad, S_PhoneNoPlus,
     S_PhoneWords, S_PhoneUS, S_PhoneNO, S_PhoneTollFree, S_PhoneTollFree2,
     S_PhoneUK >>

InitPhones ==
  /\ \E a \in 1..Len(PhonePool), b \in 1..Len(PhonePool) :
        args = <<PhonePool[a], PhonePool[b]>>
  /\ pc = "pm_ready"
  /\ heap = Empty
  /\ contacts = <<>>
  /\ comparison_cache = Empty
  /\ decision = FALSE
  /\ RunIdle
  /\ CoreIdle
  /\ ServiceIdle

\* result = are_phones_matching(phone1, phone2)
PM_Call ==
  /\ pc = "pm_ready"
  /\ result' = are_phones_matching(args[1], args[2])
  /\ pc' = "pm_done"
  /\ UNCHANGED callFrame

\* result = are_phones_matching(phone2, phone1)
PM_CallSwapped ==
  /\ pc = "pm_ready"
  /\ result' = are_phones_matching(args[2], args[1])
  /\ pc' = "pm_done_swapped"
  /\ UNCHANGED callFrame

NextPhones == PM_Call \/ PM_CallSwapped

SpecPhones == InitPhones /\ [][NextPhones]_vars

\* are_phones_matching has returned
PhonesDone == pc \in {"pm_done", "pm_done_swapped"}

\* the argument is empty (or None) or normalize_phone gives no number for it
Unusable(phone) ==
  \/ phone \in {<<>>, None}
  \/ normalize_phone(phone) \in {<<>>, None}

C19_DistinctNumbersNeverMatch ==
  PhonesDone =>
    ((/\ ~Unusable(args[1]) /\ ~Unusable(args[2])
      /\ normalize_phone(args[1]) # normalize_phone(args[2]))
       => result = FALSE)


(***************************************************************************)
(* generate_pseudo_name of process_name.py and of NameProcessor, called on *)
(* a contact dict                                                          *)
(***************************************************************************)
S_EmailJohnDoe == <<"j","o","h","n",".","d","o","e","4","2","@","e","m","a","i","l",".","c","o","m">>
S_UnknownContact == <<"U","n","k","n","o","w","n"," ","C","o","n","t","a","c","t">>

\* value[0] if isinstance(value, list) else value
FirstOf(value) == IF value.t = "list" THEN value.v[1] ELSE value.v

\* contact.get(key) is true
Has(contact, key) == key \in DOMAIN contact /\ Truthy(contact[key])

\* process_name.generate_pseudo_name
generate_pseudo_name(contact) ==
  IF Has(contact, "Email") THEN EmailName(FirstOf(contact["Email"]))
  ELSE IF Has(contact, "Telephone") THEN FirstOf(contact["Telephone"])
  ELSE IF Has(contact, "Organization") THEN contact["Organization"].v
  ELSE Unknown

\* str.capitalize()
Capitalize(s) == IF s = <<>> THEN <<>> ELSE <<UpperChar(Head(s))>> \o Lower(Tail(s))

\* re.sub(r"[._-]+", " ", re.sub(r"\d+", "", local_part))
SeparatorsToSpaces(s) ==
  LET NoDigit(c) == c \notin Digits
  IN [k \in 1..Len(SelectSeq(s, NoDigit)) |->
        IF SelectSeq(s, NoDigit)[k] \in {".", "_", "-"} THEN " "
        ELSE SelectSeq(s, NoDigit)[k]]

\* " ".join(f(word) for word in words)
JoinMapped(words, f(_)) == JoinWith(Space, [k \in 1..Len(words) |-> f(words[k])])

\* NameProcessor._clean_email_name
NameProcessor_clean_email_name(local_part) ==
  JoinMapped(Split(SeparatorsToSpaces(local_part)), Capitalize)

\* NameProcessor._normalize_case
NameProcessor_normalize_case(name) ==
  LET Part(part) ==
        IF HasChar(part, "-")
          THEN JoinWith(Hyphen, [k \in 1..Len(SplitOn(part, "-")) |->
                                   Capitalize(SplitOn(part, "-")[k])])
          ELSE Capitalize(part)
  IN JoinMapped(Split(name), Part)

\* NameProcessor.generate_pseudo_name; the sample organizations hold no
\* title, so re.IGNORECASE in _clean_name changes nothing
NameProcessor_generate_pseudo_name(contact) ==
  IF contact = Empty THEN Unknown
  ELSE IF Has(contact, "Email")
    THEN NameProcessor_normalize_case(NameProcessor_clean_email_name(
           SplitOn(FirstOf(contact["Email"]), "@")[1]))
  ELSE IF Has(contact, "Organization")
    THEN NameProcessor_normalize_case(
           NameProcessor_clean_name(contact["Organization"].v)
             \o <<" ","(","O","r","g","a","n","i","z","a","t","i","o","n",")">>)
  ELSE IF Has(contact, "Telephone")
    THEN <<"C","o","n","t","a","c","t"," ","(">> \o FirstOf(contact["Telephone"]) \o <<")">>
  ELSE S_UnknownContact

\* the values a key of the sample contacts takes; Empty stands for a
\* contact without the key
PseudoValues(key) ==
  CASE key = "Email" ->
         { Empty, "Email" :> PyStr(S_EmailJohnDoe), "Email" :> EmptyStr,
           "Email" :> PyList(<<S_EmailAda, S_EmailJohn>>) }
    [] key = "Telephone" ->
         { Empty, "Telephone" :> PyStr(S_PhoneA), "Telephone" :> PyList(<<>>),
           "Telephone" :> PyList(<<S_PhoneB, S_PhoneA>>) }
    [] key = "Organization" ->
         { Empty, "Organization" :> PyStr(S_MatrixCorp), "Organization" :> EmptyStr }

InitPseudo ==
  /\ \E email \in PseudoValues("Email"), phone \in PseudoValues("Telephone"),
        org \in PseudoValues("Organization") :
        args = << email @@ phone @@ org >>
  /\ pc = "gp_ready"
  /\ heap = Empty
  /\ contacts = <<>>
  /\ comparison_cache = Empty
  /\ decision = FALSE
  /\ RunIdle
  /\ CoreIdle
  /\ ServiceIdle

\* result = process_name.generate_pseudo_name(contact)
GP_Call ==
  /\ pc = "gp_ready"
  /\ result' = generate_pseudo_name(args[1])
  /\ pc' = "gp_done"
  /\ UNCHANGED callFrame

\* result = NameProcessor().generate_pseudo_name(contact)
GP_CoreCall ==
  /\ pc = "gp_ready"
  /\ result' = NameProcessor_generate_pseudo_name(args[1])
  /\ pc' = "gp_core_done"
  /\ UNCHANGED callFrame

NextPseudo == GP_Call \/ GP_CoreCall

SpecPseudo == InitPseudo /\ [][NextPseudo]_vars

\* the names either function derives from one source of the contact
NamesFrom(contact, source) ==
  CASE source = "Email" ->
         { EmailName(FirstOf(contact["Email"])),
           NameProcessor_normalize_case(NameProcessor_clean_email_name(
             SplitOn(FirstOf(contact["Email"]), "@")[1])) }
    [] source = "Telephone" ->
         { FirstOf(contact["Telephone"]),
           <<"C","o","n","t","a","c","t"," ","(">>
             \o FirstOf(contact["Telephone"]) \o <<")">> }
    [] source = "Organization" ->
         { contact["Organization"].v,
           NameProcessor_normalize_case(
             NameProcessor_clean_name(contact["Organization"].v)
               \o <<" ","(","O","r","g","a","n","i","z","a","t","i","o","n",")">>) }
    [] OTHER -> { Unknown, S_UnknownContact }

\* the first source the contact has, in the order email, phone, organization
FirstSource(contact) ==
  IF Has(contact, "Email") THEN "Email"
  ELSE IF Has(contact, "Telephone") THEN "Telephone"
  ELSE IF Has(contact, "Organization") THEN "Organization"
  ELSE "none"

\* C20 (as stated): generate_pseudo_name takes the email local part when
\* the contact has an email, else the first phone number, else the
\* organization, else the fallback name; with a phone and an organization
\* and no email the name is the phone-based one.
C20_EmailPhoneOrganization ==
  pc \in {"gp_done", "gp_core_done"} =>
    result \in NamesFrom(args[1], FirstSource(args[1]))


(***************************************************************************)
(* The comparison cache of is_duplicate over its lifetime: in a run of     *)
(* merge_duplicates, and in a call followed by the call with the arguments *)
(* exchanged on the same cache                                             *)
(***************************************************************************)
S_Lelanna == <<"L","e","l","a","n","n","a">>
S_Lelnana == <<"L","e","l","n","a","n","a">>
S_Joost == <<"J","o","o","s","t">>

\* two names whose SequenceMatcher ratio is 6/7 in one order and 5/7 in the
\* other, and a name that is twice among the candidates of another
MemoPool ==
  << ("Name" :> PyStr(S_Lelanna)),
     ("Name" :> PyStr(S_Lelnana)),
     ("Name" :> PyStr(S_Joost)),
     ("Name" :> PyStr(S_Jo)) >>

InitMemo ==
  /\ \/ /\ \E b \in UNION { [1..n -> 1..Len(MemoPool)] : n \in 0..MaxContacts } :
              /\ heap = [k \in DOMAIN b |-> MemoPool[b[k]]]
              /\ contacts = [k \in DOMAIN b |-> k]
        /\ pc = "md_start"
     \/ /\ \E a \in 1..Len(MemoPool), b \in 1..Len(MemoPool) :
              heap = (1 :> MemoPool[a] @@ 2 :> MemoPool[b])
        /\ contacts = <<1, 2>>
        /\ pc = "pair_ready"
  /\ comparison_cache = Empty
  /\ decision = FALSE
  /\ RunIdle
  /\ CoreIdle
  /\ ServiceIdle
  /\ args = <<>>

NextMemo == NextRun \/ NextPair

SpecMemo == InitMemo /\ [][NextMemo]_vars

\* the arguments <<id1, id2>> of the is_duplicate call the next step makes,
\* <<>> when the next step makes none
NextCall ==
  CASE pc = "pair_ready" -> <<contacts[1], contacts[2]>>
    [] pc = "pair_called" -> <<contacts[2], contacts[1]>>
    [] /\ pc = "md_inner"
       /\ j <= Len(potential_matches)
       /\ potential_matches[j] # contacts[i]
       /\ potential_matches[j] \notin processed
         -> <<contacts[i], potential_matches[j]>>
    [] OTHER -> <<>>

\* the next step is a call on a pair that has a stored decision
NextCallStored ==
  /\ NextCall # <<>>
  /\ CacheKey(NextCall[1], NextCall[2]) \in DOMAIN comparison_cache

\* no stored decision is changed or removed by the step
StoredKept ==
  \A key \in DOMAIN comparison_cache :
     /\ key \in DOMAIN comparison_cache'
     /\ comparison_cache'[key] = comparison_cache[key]

\* the arguments in the order in which the pair was first asked: a run asks
\* a pair again only with the same contact first, the exchanged call comes
\* after the call on <<contacts[1], contacts[2]>>
FirstAsked == IF pc = "pair_called" THEN <<contacts[1], contacts[2]>> ELSE NextCall

FirstSeen(list) == DedupKeepOrder(list, {})

\* C22: the emails and the phones of a merged contact are in first-seen
\* order: ordered by their first occurrence when the cluster members are
\* traversed in cluster order and each member's list in its own order.
C22_FirstSeenOrder ==
  pc = "core_done" /\ merged_groups # <<>> =>
    \A k \in 1..Len(result) :
       Len(merged_groups[k]) > 1 =>
         /\ FirstSeen(heap[result[k]].emails)
              = FirstSeen(Extended(RecordsOf(heap, merged_groups[k]), "emails"))
         /\ FirstSeen(heap[result[k]].phones)
              = FirstSeen(Extended(RecordsOf(heap, merged_groups[k]), "phones"))


\* a title that belongs in front of a name: Dr, Prof, Mr, Mrs, Ms in any
\* case, with or without a closing dot
IsPrefixToken(part) ==
  RStripChar(Upper(part), ".") \in { Upper(p) : p \in NAME_PREFIXES }

\* a token that belongs behind a name: II, III, IV, MD, PhD, Jr, Sr
IsSuffixToken(part) ==
  RStripChar(Upper(part), ".") \in { Upper(p) : p \in NAME_SUFFIXES }

IsOrdinaryPart(part) == ~IsPrefixToken(part) /\ ~IsSuffixToken(part)

\* C23: merge_names puts all prefix tokens first, then the ordinary parts,
\* then all suffix tokens: in the result no prefix token stands after an
\* ordinary part and no suffix token stands before one.
C23_PrefixesPartsSuffixes ==
  pc \in {"mn_done", "mn_done_swapped"} =>
    \A a \in 1..Len(Split(result)), b \in 1..Len(Split(result)) :
       a < b =>
         /\ ~(IsOrdinaryPart(Split(result)[a]) /\ IsPrefixToken(Split(result)[b]))
         /\ ~(IsSuffixToken(Split(result)[a]) /\ IsOrdinaryPart(Split(result)[b]))


\* the bare initials among the parts the inputs hand to add_part
InputInitials ==
  { p \in AddedParts(args[1]) \cup AddedParts(args[2]) : is_initial(p) }

\* the ordinary parts of the inputs that start with the letter of initial
LongerPartsFor(initial) ==
  { p \in AddedParts(args[1]) \cup AddedParts(args[2]) :
      /\ Ordinary(p)
      /\ StartsWith(Lower(p), Lower(RStripChar(initial, "."))) }

\* C24: merge_names prefers the longer name over a bare initial: when an
\* initial and a longer ordinary part starting with that letter both occur
\* in the inputs, the result contains the longer part, whichever of the two
\* comes first.
C24_LongerBeatsInitial ==
  pc \in {"mn_done", "mn_done_swapped"} =>
    \A initial \in InputInitials :
       \A long \in LongerPartsFor(initial) : Lower(long) \in ReturnedParts


\* the ordinary parts of the returned name, in lower case, as a list
ReturnedOrdinary ==
  SelectSeq([k \in 1..Len(Split(result)) |-> Lower(Split(result)[k])],
            LAMBDA p : RStripChar(Upper(p), ".") \notin NAME_PREFIXES \cup NAME_SUFFIXES)

\* C25: the result of merge_names never holds the same ordinary name part
\* twice when compared case-insensitively.
C25_NoPartTwice ==
  pc \in {"mn_done", "mn_done_swapped"} =>
    \A a \in 1..Len(ReturnedOrdinary), b \in 1..Len(ReturnedOrdinary) :
       a # b => ReturnedOrdinary[a] # ReturnedOrdinary[b]


(***************************************************************************)
(* The shape of the groups merge_duplicates builds (SpecRun)               *)
(***************************************************************************)
\* C26: every merged group of merge_duplicates has at least two distinct
\* members, and every member other than the first was accepted by
\* is_duplicate against the first member of the group.
C26_GroupsAreStars ==
  \A g \in 1..Len(merged_groups) :
     /\ Len(merged_groups[g]) >= 2
     /\ Cardinality(Range(merged_groups[g])) = Len(merged_groups[g])
     /\ \A k \in 2..Len(merged_groups[g]) :
           is_duplicate(heap, merged_groups[g][1], merged_groups[g][k], Empty)

\* a finished run whose three contacts form one group around the first
C26_StarOfThree ==
  /\ RunDone
  /\ Len(contacts) = 3
  /\ Len(merged_groups) = 1
  /\ Len(merged_groups[1]) = 3
  /\ merged_groups[1][1] = contacts[1]


\* C27: the mapping merge_duplicates stores for the reporting step is
\* consistent when the run ends: whenever map[id(c)] = i, i is a valid
\* (0-based) index into the stored groups and c is a member of groups[i].
C27_ProvenanceConsistent ==
  RunDone =>
    \A c \in DOMAIN mapping_global.map :
       /\ mapping_global.map[c] + 1 \in 1..Len(mapping_global.groups)
       /\ c \in Range(mapping_global.groups[mapping_global.map[c] + 1])


\* C28: the name_match_ratio is_duplicate computes never exceeds 1: the
\* count of matching parts never exceeds max(len(parts1), len(parts2)).
C28_RatioAtMostOne ==
  PairDecided /\ PairNonEmpty => PairMatching <= PairTotal


(***************************************************************************)
(* merge_duplicates, lines 216-246, as a function of the order in which    *)
(* the contacts are listed                                                 *)
(***************************************************************************)
RECURSIVE GroupAround(_, _, _, _, _)
\* the loop over potential_matches for one contact: [group, processed]
GroupAround(hp, contact, candidates, group, done) ==
  IF candidates = <<>> THEN [group |-> group, processed |-> done]
  ELSE IF /\ Head(candidates) # contact
          /\ Head(candidates) \notin done
          /\ is_duplicate(hp, contact, Head(candidates), Empty)
    THEN GroupAround(hp, contact, Tail(candidates),
                     Append(group, Head(candidates)), done \cup {Head(candidates)})
    ELSE GroupAround(hp, contact, Tail(candidates), group, done)

RECURSIVE GroupsFrom(_, _, _, _, _, _)
\* the loop over contacts from position k on
GroupsFrom(hp, order, index, k, done, groups) ==
  IF k > Len(order) THEN groups
  ELSE IF order[k] \in done THEN GroupsFrom(hp, order, index, k + 1, done, groups)
  ELSE LET around == GroupAround(hp, order[k],
                       PotentialMatches(index, BlockKey(hp[order[k]])),
                       <<order[k]>>, done)
       IN GroupsFrom(hp, order, index, k + 1,
                     around.processed \cup {order[k]},
                     IF Len(around.group) > 1 THEN Append(groups, around.group)
                     ELSE groups)

\* merged_groups of merge_duplicates for the contacts listed in this order
GroupsOf(hp, order) ==
  GroupsFrom(hp, order, create_contact_index(hp, order), 1, {}, <<>>)

\* the clusters of a list of groups, as sets of contacts
ClustersOf(groups) == { Range(groups[g]) : g \in 1..Len(groups) }

\* contact a, when it starts a group, takes contact b into it
Takes(a, b) == a # b /\ Candidate(a, b) /\ is_duplicate(heap, a, b, Empty)

\* Takes is symmetric and transitive on the batch
TakesIsEquivalence ==
  \A a, b, c \in Range(contacts) :
     /\ Takes(a, b) => Takes(b, a)
     /\ Takes(a, b) /\ Takes(b, c) /\ a # c => Takes(a, c)

Nameless(contact) ==
  /\ DOMAIN contact \cap {"Full Name", "Name", "FirstName", "LastName"} = {}
  /\ get_contact_name(contact) = Unknown

\* C30: two contacts that both lack every name field and share no phone
\* number are not reported as duplicates by is_duplicate and are not put
\* into one group by merge_duplicates.
C30_PlaceholderNeverMerges ==
  RunDone =>
    \A a, b \in Range(contacts) :
       /\ a # b
       /\ Nameless(heap[a]) /\ Nameless(heap[b])
       /\ ~have_matching_phones(heap[a], heap[b])
       => /\ ~is_duplicate(heap, a, b, Empty)
          /\ ~ \E g \in 1..Len(merged_groups) : {a, b} \subseteq Range(merged_groups[g])

====
